---- MODULE Spec2Model ----
(***************************************************************************)
(* The back end of the Tiger compiler (src/tiger): frame, flow graph,      *)
(* liveness, interference graph, the iterated-coalescing allocator and     *)
(* the spill rewriting, as one state machine per compiled function.        *)
(***************************************************************************)
EXTENDS Integers, Sequences, FiniteSets, TLC

VARIABLES
    pc,             \* position in the pipeline of main.rs / reg_alloc.rs
    instructions,   \* the instruction stream being allocated
    pointer,        \* X86_64::pointer
    formals,        \* X86_64::formals
    COUNTER,        \* temp.rs, Temp::new's static counter
    initial,        \* the `initial` argument of allocate
    flow_graph,     \* GraphBuilder: the FlowGraph and `visited`
    live_in,        \* interference_graph's live_in
    live_out,       \* interference_graph's live_out
    interference,   \* InterferenceGraph: links, move_list, worklist_moves
    a,              \* the Allocator of color.rs
    allocation,     \* the Allocation returned by color
    round,          \* number of calls of allocate so far
    input,          \* the stream handed to alloc
    rewritten,      \* the last rewrite_program: its input, spills and slots
    last,           \* the last step of the allocator's main loop
    stack_size,     \* N of `sub rsp, N`
    locals,         \* the Accesses alloc_local has handed out to the front end
    body            \* the Statement of the function body

vars == <<pc, instructions, pointer, formals, COUNTER, initial, flow_graph,
          live_in, live_out, interference, a, allocation, round, input,
          rewritten, last, stack_size, locals, body>>

-----------------------------------------------------------------------------
(* Bounds of the model *)

\* most entries of the instruction pool that make up one function body
MaxLen == 2
\* most calls of alloc_local explored by the frame specification
MaxAllocs == 6

\* longest `formals` handed to Frame::new
MaxFormals == 7
\* rounds of allocate after which the model stops following a run
MaxRounds == 12

-----------------------------------------------------------------------------
(* Generic helpers *)

Range(s) == {s[i] : i \in 1..Len(s)}

Min(S) == CHOOSE x \in S : \A y \in S : x <= y

\* insert(k, v) on a map
Put(f, k, v) == (k :> v) @@ f

Get(f, k, d) == IF k \in DOMAIN f THEN f[k] ELSE d

EmptyMap == [x \in {} |-> {}]

-----------------------------------------------------------------------------
(* frame/x86_64.rs: registers *)

POINTER_SIZE == 8

WORD_SIZE == 8

RBP == 1
RSP == 2
RAX == 3
RBX == 4
RCX == 5
RDX == 6
RSI == 7
RDI == 8
R8 == 9
R9 == 10
R10 == 11
R11 == 12
R12 == 13
R13 == 14
R14 == 15
R15 == 16

arg_registers == <<RDI, RSI, RDX, RCX, R8, R9>>

callee_saved_registers == <<RBX, RBP, R12, R13, R14, R15>>

special_registers == <<RAX, RSP>>

caller_saved_registers == <<R10, R11>>

return_value == RAX

fp == RBP

calldefs == caller_saved_registers \o arg_registers \o <<return_value>>

registers ==
    arg_registers \o <<return_value>> \o callee_saved_registers
        \o special_registers \o caller_saved_registers

register_count == Len(registers) - Len(<<RSP, RBP>>)

temp_map ==
    [t \in {RBP, RSP, RAX, RBX, RDI, RSI, RDX, RCX, R8, R9, R10, R11, R12, R13, R14, R15} |->
        CASE t = RBP -> "rbp" [] t = RSP -> "rsp" [] t = RAX -> "rax" [] t = RBX -> "rbx"
          [] t = RDI -> "rdi" [] t = RSI -> "rsi" [] t = RDX -> "rdx" [] t = RCX -> "rcx"
          [] t = R8 -> "r8" [] t = R9 -> "r9" [] t = R10 -> "r10" [] t = R11 -> "r11"
          [] t = R12 -> "r12" [] t = R13 -> "r13" [] t = R14 -> "r14" [] t = R15 -> "r15"]

precolored == DOMAIN temp_map

-----------------------------------------------------------------------------
(* asm.rs: Instruction *)

NoJump == [some |-> FALSE, labels |-> <<>>]

SomeJump(ls) == [some |-> TRUE, labels |-> ls]

Operation(asm, dst, src, jmp) ==
    [kind |-> "Operation", assembly |-> asm, destination |-> dst, source |-> src,
     jump |-> jmp, label |-> ""]

Move(asm, dst, src) ==
    [kind |-> "Move", assembly |-> asm, destination |-> dst, source |-> src,
     jump |-> NoJump, label |-> ""]

Label(asm, l) ==
    [kind |-> "Label", assembly |-> asm, destination |-> <<>>, source |-> <<>>,
     jump |-> NoJump, label |-> l]

-----------------------------------------------------------------------------
(* frame/x86_64.rs: proc_entry_exit2 *)

FirstNonLabel(is) == Min({i \in 1..Len(is) : is[i].kind # "Label"})

LastNonLabel(is) == CHOOSE i \in 1..Len(is) :
    /\ is[i].kind # "Label"
    /\ \A j \in 1..Len(is) : is[j].kind # "Label" => j <= i

sink ==
    Operation(<<>>, <<>>, callee_saved_registers \o special_registers, SomeJump(<<>>))

proc_entry_exit2(is) ==
    LET with_sink == Append(is, sink)
        first == FirstNonLabel(with_sink)
        defd == [with_sink EXCEPT ![first].destination = @ \o <<RBP, RSP>>]
        final == LastNonLabel(defd)
    IN  [defd EXCEPT ![final].source = @ \o <<RBP, RSP>>]

-----------------------------------------------------------------------------
(* graph.rs: Graph (entries are 1-based here, 0-based in the source) *)

Graph_new == [nodes |-> <<>>, successors |-> <<>>, predecessors |-> <<>>]

Graph_insert(g, node) ==
    [nodes |-> Append(g.nodes, node),
     successors |-> Append(g.successors, <<>>),
     predecessors |-> Append(g.predecessors, <<>>)]

Graph_link(g, node1, node2) ==
    LET s == [g.successors EXCEPT ![node1] = Append(@, node2)]
    IN  [g EXCEPT !.successors = s,
                  !.predecessors = [g.predecessors EXCEPT ![node2] = Append(@, node1)]]

-----------------------------------------------------------------------------
(* flow.rs: instructions_to_graph, GraphBuilder::build *)

\* label -> index of the (last) Label instruction carrying it
label_map(is) ==
    [l \in {is[i].label : i \in {j \in 1..Len(is) : is[j].kind = "Label"}} |->
        CHOOSE i \in 1..Len(is) :
            /\ is[i].kind = "Label" /\ is[i].label = l
            /\ \A j \in 1..Len(is) : (is[j].kind = "Label" /\ is[j].label = l) => j <= i]

\* the test failing for every instruction: `jmp` falls through as well
StartsWithJmp_never(asm) == FALSE

\* assembly.starts_with("jmp "): assembly strings are kept as their sequence of
\* blank-separated words, so the prefix "jmp " is a first word "jmp" with more after it
StartsWithJmp(asm) == Len(asm) >= 2 /\ asm[1] = "jmp"

\* a node that is never marked as a move
Node_not_move(instruction) ==
    [defines |-> IF instruction.kind = "Label" THEN {} ELSE Range(instruction.destination),
     uses |-> IF instruction.kind = "Label" THEN {} ELSE Range(instruction.source),
     is_move |-> FALSE]

Node(instruction) ==
    [defines |-> IF instruction.kind = "Label" THEN {} ELSE Range(instruction.destination),
     uses |-> IF instruction.kind = "Label" THEN {} ELSE Range(instruction.source),
     is_move |-> instruction.kind = "Move"]

\* b = [graph, visited]; predecessor = 0 stands for None
RECURSIVE build(_, _, _, _)
RECURSIVE build_jumps(_, _, _, _, _)
build(is, b, current_index, predecessor) ==
    IF current_index \in DOMAIN b.visited
    THEN IF predecessor # 0
         THEN [b EXCEPT !.graph = Graph_link(b.graph, predecessor, b.visited[current_index])]
         ELSE b
    ELSE
        LET instruction == is[current_index]
            g1 == Graph_insert(b.graph, Node(instruction))
            entry == Len(g1.nodes)
            g2 == IF predecessor # 0 THEN Graph_link(g1, predecessor, entry) ELSE g1
            b2 == [graph |-> g2, visited |-> Put(b.visited, current_index, entry)]
            b3 == IF instruction.kind = "Operation" /\ instruction.jump.some
                  THEN build_jumps(is, b2, instruction.jump.labels, 1, entry)
                  ELSE b2
        IN  IF instruction.kind = "Operation" /\ StartsWithJmp(instruction.assembly)
            THEN b3
            ELSE IF current_index + 1 <= Len(is)
                 THEN build(is, b3, current_index + 1, entry)
                 ELSE b3

build_jumps(is, b, labels, k, entry) ==
    IF k > Len(labels) THEN b
    ELSE build_jumps(is, build(is, b, label_map(is)[labels[k]], entry), labels, k + 1, entry)

instructions_to_graph(is) ==
    build(is, [graph |-> Graph_new, visited |-> [x \in {} |-> 0]], 1, 0)

-----------------------------------------------------------------------------
(* liveness.rs: interference_graph, the liveness loop (lines 70-93) *)

\* liveness_node without the `out - defines` part of live_in
liveness_node_uses_only(g, lv) ==
    LET index == lv.index
        node == g.nodes[index]
        li == [lv.live_in EXCEPT ![index] = node.uses]
        out_set == UNION {li[s] : s \in Range(g.successors[index])}
    IN  [live_in |-> li,
         live_out |-> [lv.live_out EXCEPT ![index] = out_set],
         index |-> index + 1]

\* liveness_node that does not take the defines out of live_in
liveness_node_defines_kept(g, lv) ==
    LET index == lv.index
        node == g.nodes[index]
        li == [lv.live_in EXCEPT ![index] = node.uses \cup lv.live_out[index]]
        out_set == UNION {li[s] : s \in Range(g.successors[index])}
    IN  [live_in |-> li,
         live_out |-> [lv.live_out EXCEPT ![index] = out_set],
         index |-> index + 1]

\* one iteration of the `for (index, node)` loop: node `index` is updated in
\* place; lv = [live_in, live_out, index], index being the loop's position
liveness_node(g, lv) ==
    LET index == lv.index
        node == g.nodes[index]
        out == lv.live_out[index]
        in_set == node.uses \cup (out \ node.defines)
        li == [lv.live_in EXCEPT ![index] = in_set]
        succs == Range(g.successors[index])
        out_set == UNION {li[s] : s \in succs}
    IN  [live_in |-> li,
         live_out |-> [lv.live_out EXCEPT ![index] = out_set],
         index |-> index + 1]

RECURSIVE liveness_from(_, _)
liveness_from(g, lv) ==
    IF lv.index > Len(g.nodes) THEN lv
    ELSE liveness_from(g, liveness_node(g, lv))

\* one pass of the outer `loop` over [live_in, live_out]
liveness_pass(g, lv) ==
    LET r == liveness_from(g, [live_in |-> lv.live_in, live_out |-> lv.live_out, index |-> 1])
    IN  [live_in |-> r.live_in, live_out |-> r.live_out]

-----------------------------------------------------------------------------
(* liveness.rs: interference_graph, lines 95-131 *)

\* The nodes and links of the Graph<Temp>: the source inserts one node per
\* occurrence and links each define to each live-out Temp; Allocator::build
\* reads it only through add_edge(temp, neighbour), so the graph is kept as
\* the set of Temps inserted and the set of (define, temp) links.
node_links(g, lo, index) == g.nodes[index].defines \X lo[index]

graph_links(g, lo) ==
    UNION {node_links(g, lo, i) : i \in 1..Len(g.nodes)}

graph_temps(g, lo) ==
    UNION {IF g.nodes[i].defines = {} THEN {} ELSE g.nodes[i].defines \cup lo[i]
           : i \in 1..Len(g.nodes)}

\* the Move nodes that contribute a pair: some define and some use
move_nodes(g) ==
    {i \in 1..Len(g.nodes) :
        g.nodes[i].is_move /\ g.nodes[i].defines # {} /\ g.nodes[i].uses # {}}

\* `defines.iter().next()` and `uses.iter().next()` of a HashSet: any element
Choices(g, index) == g.nodes[index].defines \X g.nodes[index].uses

\* the possible choices for the Move nodes of `nodes`, one pair per node
RECURSIVE PicksOver(_, _)
PicksOver(g, nodes) ==
    IF nodes = {} THEN {[x \in {} |-> <<0, 0>>]}
    ELSE LET n == Min(nodes)
         IN  {Put(f, n, p) : f \in PicksOver(g, nodes \ {n}), p \in Choices(g, n)}

\* a node with one define and one use leaves no choice
Picks(g) ==
    LET several == {i \in move_nodes(g) : Cardinality(Choices(g, i)) > 1}
        only == [i \in move_nodes(g) \ several |-> CHOOSE p \in Choices(g, i) : TRUE]
    IN  {f @@ only : f \in PicksOver(g, several)}

interference_graph(g, lo, pick) ==
    LET mn == move_nodes(g)
        temps == UNION {g.nodes[i].defines \cup g.nodes[i].uses : i \in mn}
    IN  [temps |-> graph_temps(g, lo),
         links |-> graph_links(g, lo),
         move_list |->
            [t \in temps |->
                {pick[i] : i \in {j \in mn : t \in g.nodes[j].defines \cup g.nodes[j].uses}}],
         worklist_moves |-> {pick[i] : i \in mn}]

-----------------------------------------------------------------------------
(* color.rs: Allocator *)

\* usize::max_value(), the degree of a precolored Temp (the largest integer TLC
\* holds stands for it: it is only ever compared with K and decremented)
usize_MAX == 2147483647

K == register_count

Allocator_new(move_list, worklist_moves) ==
    [active_moves |-> {},
     adjacency_list |-> EmptyMap,
     adjacency_set |-> {},
     alias |-> [x \in {} |-> 0],
     coalesced_moves |-> {},
     coalesced_nodes |-> {},
     colored_nodes |-> {},
     constrained_moves |-> {},
     degree |-> [x \in {} |-> 0],
     freeze_worklist |-> {},
     frozen_moves |-> {},
     move_list |-> move_list,
     select_stack |-> <<>>,
     simplify_worklist |-> {},
     spill_nodes |-> <<>>,
     spill_worklist |-> {},
     worklist_moves |-> worklist_moves]

\* first element of a BTreeSet<(Temp, Temp)>: the lexicographically smallest pair
MinPair(S) == CHOOSE m \in S : \A n \in S :
    m[1] < n[1] \/ (m[1] = n[1] /\ m[2] <= n[2])

\* add_edge that lists the new neighbours without counting them in the degrees
add_edge_uncounted(self, u, v) ==
    IF <<u, v>> \notin self.adjacency_set /\ u # v
    THEN LET s1 == [self EXCEPT !.adjacency_set = @ \cup {<<u, v>>, <<v, u>>}]
             s2 == IF u \notin precolored
                   THEN [s1 EXCEPT !.adjacency_list = Put(@, u, Get(@, u, {}) \cup {v})]
                   ELSE s1
         IN  IF v \notin precolored
             THEN [s2 EXCEPT !.adjacency_list = Put(@, v, Get(@, v, {}) \cup {u})]
             ELSE s2
    ELSE self

add_edge(self, u, v) ==
    IF <<u, v>> \notin self.adjacency_set /\ u # v
    THEN LET s1 == [self EXCEPT !.adjacency_set = @ \cup {<<u, v>>, <<v, u>>}]
             s2 == IF u \notin precolored
                   THEN [s1 EXCEPT
                           !.adjacency_list = Put(@, u, Get(@, u, {}) \cup {v}),
                           !.degree = Put(@, u, Get(@, u, 0) + 1)]
                   ELSE s1
         IN  IF v \notin precolored
             THEN [s2 EXCEPT
                     !.adjacency_list = Put(@, v, Get(@, v, {}) \cup {u}),
                     !.degree = Put(@, v, Get(@, v, 0) + 1)]
             ELSE s2
    ELSE self

\* move_list.entry(temp).or_insert_with(BTreeSet::new) read as a value
moves_of(self, temp) == Get(self.move_list, temp, {})

node_moves(self, temp) ==
    moves_of(self, temp) \cap (self.active_moves \cup self.worklist_moves)

\* move_related asking for two moves: an off-by-one reading of "has moves"
move_related_needs_two(self, temp) == Cardinality(node_moves(self, temp)) >= 2

move_related(self, temp) == node_moves(self, temp) # {}

\* add_worklist that leaves u in freeze_worklist
add_worklist_kept_frozen(self, u) ==
    IF u \notin precolored /\ ~move_related(self, u) /\ self.degree[u] < K
    THEN [self EXCEPT !.simplify_worklist = @ \cup {u}]
    ELSE self

add_worklist(self, u) ==
    IF u \notin precolored /\ ~move_related(self, u) /\ self.degree[u] < K
    THEN [self EXCEPT !.freeze_worklist = @ \ {u},
                      !.simplify_worklist = @ \cup {u}]
    ELSE self

adjacent(self, temp) ==
    Get(self.adjacency_list, temp, {}) \ (Range(self.select_stack) \cup self.coalesced_nodes)

\* get_alias that follows one link only
get_alias_one_step(self, node) ==
    IF node \in self.coalesced_nodes THEN self.alias[node] ELSE node

RECURSIVE get_alias(_, _)
get_alias(self, node) ==
    IF node \in self.coalesced_nodes THEN get_alias(self, self.alias[node]) ELSE node

\* enable_moves that leaves in active_moves the moves it puts in worklist_moves
enable_moves_copied(self, nodes) ==
    LET taken == self.active_moves \cap UNION {node_moves(self, n) : n \in nodes}
    IN  [self EXCEPT !.worklist_moves = @ \cup taken]

\* every active move of a node of `nodes` goes back to worklist_moves; the loop
\* never changes active_moves \cup worklist_moves, so node_moves is the same
\* throughout and the moves taken are those active at the start
enable_moves(self, nodes) ==
    LET taken == self.active_moves \cap UNION {node_moves(self, n) : n \in nodes}
    IN  [self EXCEPT !.active_moves = @ \ taken,
                     !.worklist_moves = @ \cup taken]

\* decrement_degree that puts the Temp in simplify_worklist without asking
\* whether it is move-related
decrement_degree_to_simplify(self, temp) ==
    LET degree == self.degree[temp]
        s1 == [self EXCEPT !.degree[temp] = @ - 1]
    IN  IF degree = K
        THEN LET s2 == enable_moves(s1, adjacent(s1, temp) \cup {temp})
             IN  [s2 EXCEPT !.spill_worklist = @ \ {temp},
                            !.simplify_worklist = @ \cup {temp}]
        ELSE s1

decrement_degree(self, temp) ==
    LET degree == self.degree[temp]
        s1 == [self EXCEPT !.degree[temp] = @ - 1]
    IN  IF degree = K
        THEN LET s2 == enable_moves(s1, adjacent(s1, temp) \cup {temp})
                 s3 == [s2 EXCEPT !.spill_worklist = @ \ {temp}]
             IN  IF move_related(s3, temp)
                 THEN [s3 EXCEPT !.freeze_worklist = @ \cup {temp}]
                 ELSE [s3 EXCEPT !.simplify_worklist = @ \cup {temp}]
        ELSE s1

\* `for neighbor in self.adjacent(temp) { self.decrement_degree(neighbor) }`;
\* r = [self, nodes], nodes being those the loop has still to visit
RECURSIVE decrement_all(_)
decrement_all(r) ==
    IF r.nodes = {} THEN r.self
    ELSE LET n == Min(r.nodes)
         IN  decrement_all([self |-> decrement_degree(r.self, n), nodes |-> r.nodes \ {n}])

\* simplify that leaves simplify_worklist and select_stack as they are
simplify_nothing(self) == self

simplify(self) ==
    LET temp == Min(self.simplify_worklist)
        s1 == [self EXCEPT !.simplify_worklist = @ \ {temp},
                           !.select_stack = Append(@, temp)]
    IN  decrement_all([self |-> s1, nodes |-> adjacent(s1, temp)])

\* the Briggs test always passing
conservative_always(self, nodes) == TRUE

conservative(self, nodes) ==
    Cardinality({node \in nodes : self.degree[node] >= K}) < K

\* the George test always passing
ok_always(self, temp, u) == TRUE

ok(self, temp, u) ==
    \/ self.degree[temp] < K
    \/ temp \in precolored
    \/ <<temp, u>> \in self.adjacency_set

\* combine without its `for temp in nodes` loop: the neighbours of v are not
\* handed over to u
combine_edges_skipped(r, u) == r.self

\* the `for temp in nodes` loop of combine; r = [self, nodes], nodes being those
\* the loop has still to visit
RECURSIVE combine_edges(_, _)
combine_edges(r, u) ==
    IF r.nodes = {} THEN r.self
    ELSE LET temp == Min(r.nodes)
         IN  combine_edges([self |-> decrement_degree(add_edge(r.self, temp, u), temp),
                            nodes |-> r.nodes \ {temp}], u)

combine(self, u, v) ==
    LET s1 == IF v \in self.freeze_worklist
              THEN [self EXCEPT !.freeze_worklist = @ \ {v}]
              ELSE [self EXCEPT !.spill_worklist = @ \ {v}]
        s2 == [s1 EXCEPT !.coalesced_nodes = @ \cup {v},
                         !.alias = Put(@, v, u)]
        nodes == moves_of(s2, v)
        s3 == [s2 EXCEPT !.move_list = Put(Put(@, v, nodes), u, Get(@, u, {}) \cup nodes)]
        s4 == enable_moves(s3, {v})
        s5 == combine_edges([self |-> s4, nodes |-> adjacent(s4, v)], u)
    IN  IF s5.degree[u] >= K /\ u \in s5.freeze_worklist
        THEN [s5 EXCEPT !.freeze_worklist = @ \ {u},
                        !.spill_worklist = @ \cup {u}]
        ELSE s5

coalesce(self) ==
    LET mov == MinPair(self.worklist_moves)
        s1 == [self EXCEPT !.worklist_moves = @ \ {mov}]
        x == get_alias(s1, mov[1])
        y == get_alias(s1, mov[2])
        u == IF y \in precolored THEN y ELSE x
        v == IF y \in precolored THEN x ELSE y
        nodes == adjacent(s1, u) \cup adjacent(s1, v)
    IN  IF u = v
        THEN add_worklist([s1 EXCEPT !.coalesced_moves = @ \cup {mov}], u)
        ELSE IF v \in precolored \/ <<u, v>> \in s1.adjacency_set
        THEN add_worklist(add_worklist([s1 EXCEPT !.constrained_moves = @ \cup {mov}], u), v)
        ELSE IF \/ u \in precolored /\ \A temp \in adjacent(s1, v) : ok(s1, temp, u)
                \/ u \notin precolored /\ conservative(s1, nodes)
        THEN add_worklist(combine([s1 EXCEPT !.coalesced_moves = @ \cup {mov}], u, v), u)
        ELSE [s1 EXCEPT !.active_moves = @ \cup {mov}]

\* the `for mov in self.node_moves(u)` loop of freeze_moves; r = [self, moves],
\* moves being those the loop has still to visit
RECURSIVE freeze_each(_, _)
freeze_each(r, u) ==
    IF r.moves = {} THEN r.self
    ELSE LET self == r.self
             mov == MinPair(r.moves)
             v == IF get_alias(self, mov[2]) = get_alias(self, u)
                  THEN get_alias(self, mov[1])
                  ELSE get_alias(self, mov[2])
             s1 == [self EXCEPT !.active_moves = @ \ {mov},
                                !.frozen_moves = @ \cup {mov}]
             s2 == IF node_moves(s1, v) = {} /\ s1.degree[v] < K
                   THEN [s1 EXCEPT !.freeze_worklist = @ \ {v},
                                   !.simplify_worklist = @ \cup {v}]
                   ELSE s1
         IN  freeze_each([self |-> s2, moves |-> r.moves \ {mov}], u)

\* freeze_moves that leaves the moves of u where they are
freeze_moves_skipped(self, u) == self

freeze_moves(self, u) == freeze_each([self |-> self, moves |-> node_moves(self, u)], u)

freeze(self) ==
    LET u == Min(self.freeze_worklist)
    IN  freeze_moves([self EXCEPT !.freeze_worklist = @ \ {u},
                                  !.simplify_worklist = @ \cup {u}], u)

spill_cost(self, node) == -(self.degree[node])

\* select_spill taking the first Temp of spill_worklist, whatever its cost
select_spill_first(self) ==
    LET temp == Min(self.spill_worklist)
    IN  freeze_moves([self EXCEPT !.spill_worklist = @ \ {temp},
                                  !.simplify_worklist = @ \cup {temp}], temp)

\* min_by_key over the ordered set: the first (smallest-id) Temp of least cost
select_spill(self) ==
    LET least == {n \in self.spill_worklist :
                    \A m \in self.spill_worklist : spill_cost(self, n) <= spill_cost(self, m)}
        temp == Min(least)
    IN  freeze_moves([self EXCEPT !.spill_worklist = @ \ {temp},
                                  !.simplify_worklist = @ \cup {temp}], temp)

\* `initial` is a Vec in the source; make_worklist only inserts its elements into
\* sets, and what it tests of one element (its degree, its moves) is not changed
\* by the insertion of another, so the loop is written as its result
make_worklist(self, init) ==
    LET s1 == [self EXCEPT !.degree = @ @@ [n \in init |-> 0]]
        spill == {n \in init : s1.degree[n] >= K}
        frozen == {n \in init \ spill : move_related(s1, n)}
    IN  [s1 EXCEPT !.spill_worklist = @ \cup spill,
                   !.freeze_worklist = @ \cup frozen,
                   !.simplify_worklist = @ \cup ((init \ spill) \ frozen)]

\* build calls add_edge(temp, neighbour) for every link of the graph, in both
\* directions, on an Allocator that has no edge yet: what these calls leave is
\* written here at once (each link that joins two distinct Temps is in
\* adjacency_set both ways, each non-precolored end lists the other end and
\* counts it in its degree), then the precolored degrees are set
Allocator_build(self, links) ==
    LET edges == {e \in links \cup {<<l[2], l[1]>> : l \in links} : e[1] # e[2]}
        ends == {e[1] : e \in edges} \ precolored
        lists == [t \in ends |-> {e[2] : e \in {f \in edges : f[1] = t}}]
    IN  [self EXCEPT
            !.adjacency_set = edges,
            !.adjacency_list = lists,
            !.degree = [t \in ends \cup precolored |->
                            IF t \in precolored THEN usize_MAX ELSE Cardinality(lists[t])]]

\* the `for neighbor in &self.adjacency_list[&temp]` loop of assign_colors
remove_colors(self, colors, ok_colors, neighbors) ==
    LET aliases == {get_alias(self, n) : n \in neighbors}
        used == {neighbor \in aliases :
                    /\ neighbor \in self.colored_nodes \/ neighbor \in precolored
                    /\ neighbor \in DOMAIN colors}
    IN  ok_colors \ {colors[neighbor] : neighbor \in used}

\* the `while let Some(temp) = self.select_stack.pop()` loop; r = [self, colors]
RECURSIVE assign_stack(_)
assign_stack(r) ==
    IF r.self.select_stack = <<>> THEN r
    ELSE LET stack == r.self.select_stack
             temp == stack[Len(stack)]
             s1 == [r.self EXCEPT !.select_stack = SubSeq(stack, 1, Len(stack) - 1)]
             ok_colors == remove_colors(s1, r.colors, Range(registers),
                                        Get(s1.adjacency_list, temp, {}))
         IN  IF ok_colors # {}
             THEN assign_stack([self |-> [s1 EXCEPT !.colored_nodes = @ \cup {temp}],
                                colors |-> Put(r.colors, temp, Min(ok_colors))])
             ELSE assign_stack([self |-> [s1 EXCEPT !.spill_nodes = Append(@, temp)],
                                colors |-> r.colors])

\* assign_colors without its loop over coalesced_nodes
assign_coalesced_skipped(self, colors, nodes) == colors

\* the `for node in &self.coalesced_nodes` loop of assign_colors: an alias is
\* never a coalesced node, so no lookup reads a color the loop has inserted
assign_coalesced(self, colors, nodes) ==
    LET found == {node \in nodes : get_alias(self, node) \in DOMAIN colors}
    IN  [node \in found |-> colors[get_alias(self, node)]] @@ colors

\* returns [self, colors]
assign_colors(self) ==
    LET r == assign_stack([self |-> self, colors |-> [t \in precolored |-> t]])
    IN  [self |-> r.self,
         colors |-> assign_coalesced(r.self, r.colors, r.self.coalesced_nodes)]

\* the `while` loop of allocate: one of simplify, coalesce, freeze, select_spill
\* per iteration, in this order of preference
RECURSIVE Allocator_loop(_)
Allocator_loop(self) ==
    IF self.simplify_worklist # {} THEN Allocator_loop(simplify(self))
    ELSE IF self.worklist_moves # {} THEN Allocator_loop(coalesce(self))
    ELSE IF self.freeze_worklist # {} THEN Allocator_loop(freeze(self))
    ELSE IF self.spill_worklist # {} THEN Allocator_loop(select_spill(self))
    ELSE self

\* returns [self, colors]
Allocator_allocate(self, init, links) ==
    assign_colors(Allocator_loop(make_worklist(Allocator_build(self, links), init)))

color(ig, init) ==
    LET r == Allocator_allocate(Allocator_new(ig.move_list, ig.worklist_moves), init, ig.links)
    IN  [allocation |-> r.colors,
         spill_nodes |-> r.self.spill_nodes,
         colored_nodes |-> r.self.colored_nodes,
         coalesced_nodes |-> r.self.coalesced_nodes]

-----------------------------------------------------------------------------
(* frame/x86_64.rs: the frame *)

InFrame(offset) == [kind |-> "InFrame", offset |-> offset, temp |-> 0]

InReg(temp) == [kind |-> "InReg", offset |-> 0, temp |-> temp]

\* alloc_local handing out the pointer as it was before the decrement
alloc_local_old_pointer(frame, escape) ==
    IF escape
    THEN [frame |-> [frame EXCEPT !.pointer = @ - POINTER_SIZE],
          access |-> InFrame(frame.pointer)]
    ELSE [frame |-> [frame EXCEPT !.COUNTER = @ + 1],
          access |-> InReg(frame.COUNTER + 1)]

\* the frame part of the state: [pointer, formals, COUNTER]; returns it updated
\* together with the Access handed out
alloc_local(frame, escape) ==
    IF escape
    THEN [frame |-> [frame EXCEPT !.pointer = @ - POINTER_SIZE],
          access |-> InFrame(frame.pointer - POINTER_SIZE)]
    ELSE [frame |-> [frame EXCEPT !.COUNTER = @ + 1],
          access |-> InReg(frame.COUNTER + 1)]

RECURSIVE new_formals(_, _, _)
new_formals(frame, escapes, k) ==
    IF k > Len(escapes) THEN frame
    ELSE LET r == alloc_local(frame, escapes[k])
         IN  new_formals([r.frame EXCEPT !.formals = Append(@, r.access)], escapes, k + 1)

Frame_new(counter, escapes) ==
    new_formals([pointer |-> 0, formals |-> <<>>, COUNTER |-> counter], escapes, 1)

\* proc_entry_exit3 without the alignment
proc_entry_exit3_unaligned(ptr) == -ptr

\* stack_size & !0xF for a non-negative stack_size
AndNot15(n) == n - (n % 16)

proc_entry_exit3(ptr) ==
    LET size == -ptr
    IN  IF size % 16 # 0 THEN AndNot15(size) + 16 ELSE size

-----------------------------------------------------------------------------
(* ir.rs: the Exp and Statement this part of the frame builds *)

Exp_Const(n) == [kind |-> "Const", n |-> n]

Exp_Temp(temp) == [kind |-> "Temp", temp |-> temp]

Exp_Plus(left, right) == [kind |-> "BinOp", op |-> "Plus", left |-> left, right |-> right]

Exp_Mem(e) == [kind |-> "Mem", e |-> e]

Statement_Move(dst, src) == [kind |-> "Move", dst |-> dst, src |-> src]

Statement_Exp(e) == [kind |-> "Exp", e |-> e]

Statement_Sequence(left, right) == [kind |-> "Sequence", left |-> left, right |-> right]

Statement_Label(l) == [kind |-> "Label", label |-> l]

\* the translated body of the function, as proc_entry_exit1 receives it
FunctionBody == Statement_Label("body")

-----------------------------------------------------------------------------
(* frame/x86_64.rs: exp and proc_entry_exit1 *)

exp(access, stack_frame) ==
    IF access.kind = "InFrame"
    THEN Exp_Mem(Exp_Plus(stack_frame, Exp_Const(access.offset)))
    ELSE Exp_Temp(access.temp)

\* the k-th callee-saved register is saved in the k-th Temp::new()
saved_register_locations(frame) ==
    [k \in 1..Len(callee_saved_registers) |-> Exp_Temp(frame.COUNTER + k)]

save_statements(frame) ==
    [k \in 1..Len(callee_saved_registers) |->
        Statement_Move(saved_register_locations(frame)[k],
                       Exp_Temp(callee_saved_registers[k]))]

\* formals.iter().zip(arg_registers)
register_formal_statements(frame) ==
    [k \in 1..Min({Len(frame.formals), Len(arg_registers)}) |->
        Statement_Move(exp(frame.formals[k], Exp_Temp(fp)), Exp_Temp(arg_registers[k]))]

\* where the caller left the index-th formal beyond the sixth, one word lower
stack_formal_source_no_return_address(index) ==
    Exp_Mem(Exp_Plus(Exp_Temp(fp), Exp_Const(WORD_SIZE * (index + 1))))

\* where the caller left the index-th formal beyond the sixth
stack_formal_source(index) ==
    Exp_Mem(Exp_Plus(Exp_Temp(fp), Exp_Const(WORD_SIZE * (index + 2))))

\* formals.iter().skip(arg_registers_len).enumerate(); index1 is index + 1
stack_formal_statements(frame) ==
    IF Len(frame.formals) <= Len(arg_registers) THEN <<>>
    ELSE [index1 \in 1..(Len(frame.formals) - Len(arg_registers)) |->
            Statement_Move(exp(frame.formals[index1 + Len(arg_registers)], Exp_Temp(fp)),
                           stack_formal_source(index1 - 1))]

start_statements(frame) ==
    save_statements(frame) \o register_formal_statements(frame)
        \o stack_formal_statements(frame)

end_statements(frame) ==
    [k \in 1..Len(callee_saved_registers) |->
        Statement_Move(Exp_Temp(callee_saved_registers[k]),
                       saved_register_locations(frame)[k])]

\* for statement in end_statements { end_statement = Sequence(end_statement, statement) }
RECURSIVE fold_end(_, _, _)
fold_end(end_statement, statements, k) ==
    IF k > Len(statements) THEN end_statement
    ELSE fold_end(Statement_Sequence(end_statement, statements[k]), statements, k + 1)

\* for new_statement in start_statements.rev() { statement = Sequence(new_statement, statement) }
RECURSIVE fold_start(_, _, _)
fold_start(statement, statements, k) ==
    IF k < 1 THEN statement
    ELSE fold_start(Statement_Sequence(statements[k], statement), statements, k - 1)

\* proc_entry_exit1 restoring the callee-saved registers ahead of the body
proc_entry_exit1_restores_first(frame, statement) ==
    [frame |-> [frame EXCEPT !.COUNTER = @ + Len(callee_saved_registers)],
     statement |->
        Statement_Sequence(
            fold_end(Statement_Exp(Exp_Const(0)), end_statements(frame), 1),
            fold_start(statement, start_statements(frame),
                       Len(start_statements(frame))))]

proc_entry_exit1(frame, statement) ==
    [frame |-> [frame EXCEPT !.COUNTER = @ + Len(callee_saved_registers)],
     statement |->
        Statement_Sequence(
            fold_start(statement, start_statements(frame),
                       Len(start_statements(frame))),
            fold_end(Statement_Exp(Exp_Const(0)), end_statements(frame), 1))]

-----------------------------------------------------------------------------
(* asm_gen.rs is not part of the sources: the three instructions rewrite_program
   obtains from Gen, as its comments and the tile table of the specification
   describe them *)

\* munch_expression(Mem(fp + offset)): a load into a fresh Temp
munch_load(temp, offset) ==
    Move(<<"mov", "'d0,", "['s0", "+", ToString(offset), "]">>, <<temp>>, <<fp>>)

\* munch_statement(Move(Temp(dst), Temp(src)))
munch_move(dst, src) == Move(<<"mov", "'d0,", "'s0">>, <<dst>>, <<src>>)

\* munch_statement(Move(Mem(fp + offset), Temp(src)))
munch_store(offset, src) ==
    Move(<<"mov", "['s0", "+", ToString(offset), "],", "'s1">>, <<>>, <<fp, src>>)

-----------------------------------------------------------------------------
(* reg_alloc.rs *)

\* alloc, lines 16-46: the non-precolored Temps of the stream
alloc_initial(is) ==
    UNION {(Range(is[i].destination) \cup Range(is[i].source)) \ precolored
           : i \in {j \in 1..Len(is) : is[j].kind # "Label"}}

Subst(colors, ts) == [i \in 1..Len(ts) |-> IF ts[i] \in DOMAIN colors THEN colors[ts[i]] ELSE ts[i]]

\* a retain predicate that drops every `mov 'd0, 's0`, self-move or not
SelfMove_every_mov(instruction) ==
    /\ instruction.kind = "Move"
    /\ instruction.assembly = <<"mov", "'d0,", "'s0">>

SelfMove(instruction) ==
    /\ instruction.kind = "Move"
    /\ instruction.assembly = <<"mov", "'d0,", "'s0">>
    /\ instruction.destination[1] = instruction.source[1]

RECURSIVE Retain(_)
Retain(is) ==
    IF is = <<>> THEN <<>>
    ELSE IF SelfMove(Head(is)) THEN Retain(Tail(is))
    ELSE <<Head(is)>> \o Retain(Tail(is))

replace_allocation(is, colors) ==
    Retain([i \in 1..Len(is) |->
        IF is[i].kind = "Label" THEN is[i]
        ELSE [is[i] EXCEPT !.destination = Subst(colors, @),
                           !.source = Subst(colors, @)]])

\* iter().find(|t| spills.contains(t)): the first spilled Temp of a vector, 0 if none
FirstSpilled(ts, spills) ==
    IF \E i \in 1..Len(ts) : ts[i] \in Range(spills)
    THEN ts[Min({i \in 1..Len(ts) : ts[i] \in Range(spills)})]
    ELSE 0

\* the slots: one alloc_local(true) per spilled Temp, in the order of `spills`
RECURSIVE alloc_slots(_, _, _, _)
alloc_slots(frame, memory, spills, k) ==
    IF k > Len(spills) THEN [frame |-> frame, memory |-> memory]
    ELSE LET r == alloc_local(frame, TRUE)
         IN  alloc_slots(r.frame, Put(memory, spills[k], r.access.offset), spills, k + 1)

\* one iteration of the loop over the instructions;
\* r = [out, COUNTER, new_temps, index], index being the loop's position
rewrite_one(r, is, memory, spills) ==
    LET instruction == is[r.index]
        d == IF instruction.kind = "Label" THEN 0
             ELSE FirstSpilled(instruction.destination, spills)
        s == IF instruction.kind = "Label" THEN 0
             ELSE FirstSpilled(instruction.source, spills)
        temp == r.COUNTER + 1
        load == <<munch_load(temp, memory[s]), munch_move(s, temp)>>
    IN  IF d # 0
        THEN IF s # 0
             THEN [out |-> r.out \o load \o <<instruction, munch_store(memory[d], d)>>,
                   COUNTER |-> temp,
                   new_temps |-> r.new_temps \cup {temp},
                   index |-> r.index + 1]
             ELSE [r EXCEPT !.out = @ \o <<instruction, munch_store(memory[d], d)>>,
                            !.index = @ + 1]
        ELSE IF s # 0
             THEN [out |-> r.out \o load \o <<instruction>>,
                   COUNTER |-> temp,
                   new_temps |-> r.new_temps \cup {temp},
                   index |-> r.index + 1]
             ELSE [r EXCEPT !.out = Append(@, instruction), !.index = @ + 1]

RECURSIVE rewrite_from(_, _, _, _)
rewrite_from(r, is, memory, spills) ==
    IF r.index > Len(is) THEN r
    ELSE rewrite_from(rewrite_one(r, is, memory, spills), is, memory, spills)

\* rewrite_program leaving the stream as it is
rewrite_program_skipped(is, spills, frame) ==
    [instructions |-> is,
     new_temps |-> Range(spills),
     frame |-> frame,
     memory |-> alloc_slots(frame, [x \in {} |-> 0], spills, 1).memory]

\* returns [instructions, new_temps, frame, memory]
rewrite_program(is, spills, frame) ==
    LET slots == alloc_slots(frame, [x \in {} |-> 0], spills, 1)
        r == rewrite_from([out |-> <<>>, COUNTER |-> slots.frame.COUNTER,
                           new_temps |-> Range(spills), index |-> 1],
                          is, slots.memory, spills)
    IN  [instructions |-> r.out,
         new_temps |-> r.new_temps,
         frame |-> [slots.frame EXCEPT !.COUNTER = r.COUNTER],
         memory |-> slots.memory]

-----------------------------------------------------------------------------
(* The streams handed to proc_entry_exit2: what the selector emits for a
   function body wrapped by proc_entry_exit1 (a label, the saves of the
   callee-saved registers, the body, the restores). *)

mov == <<"mov", "'d0,", "'s0">>

\* Temp::new: COUNTER starts at 16, so the first fresh Temp is 17
InitialCounter == 16

FirstTemp == InitialCounter + 1

\* the Temp proc_entry_exit1 saves the i-th callee-saved register in
SaveTemp(i) == FirstTemp + i - 1

\* the Temps of the body: T(1), T(2), ...
T(i) == FirstTemp + Len(callee_saved_registers) + i - 1

TA == T(1)

TB == T(2)

TC == T(3)

LastBodyTemp == T(8)

Saves == [i \in 1..Len(callee_saved_registers) |->
            Move(mov, <<SaveTemp(i)>>, <<callee_saved_registers[i]>>)]

Restores == [i \in 1..Len(callee_saved_registers) |->
            Move(mov, <<callee_saved_registers[i]>>, <<SaveTemp(i)>>)]

call == Operation(<<"call", "f">>, calldefs, <<RDI>>, NoJump)

\* eight values live across a call, then consumed two by two
Pressure ==
    [i \in 1..8 |-> Move(<<"mov", "'d0,", ToString(i)>>, <<T(i)>>, <<>>)]
    \o << call,
          Operation(<<"add", "'d0,", "'s1">>, <<T(1)>>, <<T(1), T(2)>>, NoJump),
          Move(<<"mov", "['s0],", "'s1">>, <<>>, <<T(3), T(4)>>),
          Move(<<"mov", "['s0],", "'s1">>, <<>>, <<T(5), T(6)>>),
          Move(<<"mov", "['s0],", "'s1">>, <<>>, <<T(7), T(8)>>) >>

Pool == <<
    << Move(<<"mov", "'d0,", "1">>, <<TA>>, <<>>),
       Move(<<"mov", "'d0,", "2">>, <<TB>>, <<>>) >>,
    << Move(mov, <<TB>>, <<TA>>),
       Operation(<<"add", "'d0,", "'s1">>, <<TB>>, <<TB, TA>>, NoJump) >>,
    << call >>,
    << Move(<<"mov", "'d0,", "['s0", "+", "-8", "]">>, <<TA>>, <<RBP>>) >>,
    << Move(mov, <<RDI>>, <<TB>>) >>,
    << Label(<<"l1:">>, "l1"),
       Operation(<<"cmp", "'s0,", "'s1">>, <<>>, <<TA, TB>>, NoJump),
       Operation(<<"jl", "l1">>, <<>>, <<>>, SomeJump(<<"l1", "l2">>)),
       Label(<<"l2:">>, "l2") >>,
    << Operation(<<"jmp", "l3">>, <<>>, <<>>, SomeJump(<<"l3">>)),
       Move(<<"mov", "'d0,", "3">>, <<TA>>, <<>>),
       Label(<<"l3:">>, "l3") >>,
    << Move(<<"mov", "'d0,", "4">>, <<TA>>, <<>>),
       Move(mov, <<TB>>, <<TA>>),
       Move(mov, <<TC>>, <<TB>>),
       Move(<<"mov", "['s0],", "'s1">>, <<>>, <<TC, TC>>) >>,
    Pressure
>>

\* the selections of at most MaxLen pool entries, in pool order
Selections == {S \in SUBSET (1..Len(Pool)) : Cardinality(S) <= MaxLen}

RECURSIVE Concat(_, _)
Concat(S, k) ==
    IF k > Len(Pool) THEN <<>>
    ELSE (IF k \in S THEN Pool[k] ELSE <<>>) \o Concat(S, k + 1)

Labels(is) == {is[i].label : i \in {j \in 1..Len(is) : is[j].kind = "Label"}}

\* every jump target is a label of the stream
WellFormed(is) ==
    \A i \in 1..Len(is) : Range(is[i].jump.labels) \subseteq Labels(is)

Stream(S) == <<Label(<<"l0:">>, "l0")>> \o Saves \o Concat(S, 1) \o Restores

Streams == {Stream(S) : S \in {R \in Selections : WellFormed(Concat(R, 1))}}

-----------------------------------------------------------------------------
(* The pipeline of main.rs for one function, from the selected stream on *)

NoAllocator == Allocator_new(EmptyMap, {})

NoRewrite == [instructions |-> <<>>, spills |-> <<>>, memory |-> [x \in {} |-> 0]]

NoGraph == [graph |-> Graph_new, visited |-> [x \in {} |-> 0]]

NoInterference == [temps |-> {}, links |-> {}, move_list |-> EmptyMap, worklist_moves |-> {}]

FrameState == [pointer |-> pointer, formals |-> formals, COUNTER |-> COUNTER]

Init ==
    /\ pc = "selected"
    /\ instructions \in Streams
    /\ LET f == Frame_new(LastBodyTemp, <<>>)
       IN  pointer = f.pointer /\ formals = f.formals /\ COUNTER = f.COUNTER
    /\ initial = {}
    /\ flow_graph = NoGraph
    /\ live_in = <<>>
    /\ live_out = <<>>
    /\ interference = NoInterference
    /\ a = NoAllocator
    /\ allocation = [t \in {} |-> 0]
    /\ round = 0
    /\ input = <<>>
    /\ rewritten = NoRewrite
    /\ last = "none"
    /\ stack_size = 0
    /\ locals = <<>>
    /\ body = FunctionBody

ProcEntryExit2 ==
    /\ pc = "selected"
    /\ instructions' = proc_entry_exit2(instructions)
    /\ pc' = "alloc"
    /\ UNCHANGED <<body, locals, pointer, formals, COUNTER, initial, flow_graph, live_in, live_out,
                   interference, a, allocation, round, input, rewritten, last, stack_size>>

Alloc ==
    /\ pc = "alloc"
    /\ initial' = alloc_initial(instructions)
    /\ input' = instructions
    /\ round' = 1
    /\ pc' = "flow"
    /\ UNCHANGED <<body, locals, instructions, pointer, formals, COUNTER, flow_graph, live_in, live_out,
                   interference, a, allocation, rewritten, last, stack_size>>

InstructionsToGraph ==
    /\ pc = "flow"
    /\ flow_graph' = instructions_to_graph(instructions)
    /\ live_in' = [i \in 1..Len(flow_graph'.graph.nodes) |-> {}]
    /\ live_out' = [i \in 1..Len(flow_graph'.graph.nodes) |-> {}]
    /\ pc' = "liveness"
    /\ UNCHANGED <<body, locals, instructions, pointer, formals, COUNTER, initial,
                   interference, a, allocation, round, input, rewritten, last, stack_size>>

\* one iteration of the `loop` of interference_graph, its break test included
LivenessPass ==
    /\ pc = "liveness"
    /\ LET lv == liveness_pass(flow_graph.graph, [live_in |-> live_in, live_out |-> live_out])
       IN  /\ live_in' = lv.live_in
           /\ live_out' = lv.live_out
           /\ pc' = IF lv.live_in = live_in /\ lv.live_out = live_out
                    THEN "interference" ELSE "liveness"
    /\ UNCHANGED <<body, locals, instructions, pointer, formals, COUNTER, initial, flow_graph,
                   interference, a, allocation, round, input, rewritten, last, stack_size>>

Interference ==
    /\ pc = "interference"
    /\ \E pick \in Picks(flow_graph.graph) :
         interference' = interference_graph(flow_graph.graph, live_out, pick)
    /\ pc' = "build"
    /\ UNCHANGED <<body, locals, instructions, pointer, formals, COUNTER, initial, flow_graph, live_in,
                   live_out, a, allocation, round, input, rewritten, last, stack_size>>

Build ==
    /\ pc = "build"
    /\ a' = Allocator_build(
                Allocator_new(interference.move_list, interference.worklist_moves),
                interference.links)
    /\ pc' = "make_worklist"
    /\ last' = "none"
    /\ UNCHANGED <<body, locals, instructions, pointer, formals, COUNTER, initial, flow_graph, live_in,
                   live_out, interference, allocation, round, input, rewritten, stack_size>>

MakeWorklist ==
    /\ pc = "make_worklist"
    /\ a' = make_worklist(a, initial)
    /\ pc' = "loop"
    /\ UNCHANGED <<body, locals, instructions, pointer, formals, COUNTER, initial, flow_graph, live_in,
                   live_out, interference, allocation, round, input, rewritten, last,
                   stack_size>>

LoopUnchanged ==
    UNCHANGED <<body, locals, pc, instructions, pointer, formals, COUNTER, initial, flow_graph, live_in,
                live_out, interference, allocation, round, input, rewritten, stack_size>>

Simplify ==
    /\ pc = "loop"
    /\ a.simplify_worklist # {}
    /\ a' = simplify(a)
    /\ last' = "simplify"
    /\ LoopUnchanged

\* the coalesce branch taken without looking at simplify_worklist
Coalesce_before_simplify ==
    /\ pc = "loop"
    /\ a.worklist_moves # {}
    /\ a' = coalesce(a)
    /\ last' = "coalesce"
    /\ LoopUnchanged

Coalesce ==
    /\ pc = "loop"
    /\ a.simplify_worklist = {}
    /\ a.worklist_moves # {}
    /\ a' = coalesce(a)
    /\ last' = "coalesce"
    /\ LoopUnchanged

Freeze ==
    /\ pc = "loop"
    /\ a.simplify_worklist = {}
    /\ a.worklist_moves = {}
    /\ a.freeze_worklist # {}
    /\ a' = freeze(a)
    /\ last' = "freeze"
    /\ LoopUnchanged

SelectSpill ==
    /\ pc = "loop"
    /\ a.simplify_worklist = {}
    /\ a.worklist_moves = {}
    /\ a.freeze_worklist = {}
    /\ a.spill_worklist # {}
    /\ a' = select_spill(a)
    /\ last' = "select_spill"
    /\ LoopUnchanged

AssignColors ==
    /\ pc = "loop"
    /\ a.simplify_worklist = {}
    /\ a.spill_worklist = {}
    /\ a.worklist_moves = {}
    /\ a.freeze_worklist = {}
    /\ LET r == assign_colors(a)
       IN  a' = r.self /\ allocation' = r.colors
    /\ pc' = "colored"
    /\ last' = "assign_colors"
    /\ UNCHANGED <<body, locals, instructions, pointer, formals, COUNTER, initial, flow_graph, live_in,
                   live_out, interference, round, input, rewritten, stack_size>>

ReplaceAllocation ==
    /\ pc = "colored"
    /\ a.spill_nodes = <<>>
    /\ instructions' = replace_allocation(instructions, allocation)
    /\ pc' = "allocated"
    /\ UNCHANGED <<body, locals, pointer, formals, COUNTER, initial, flow_graph, live_in, live_out,
                   interference, a, allocation, round, input, rewritten, last, stack_size>>

RewriteProgram ==
    /\ pc = "colored"
    /\ a.spill_nodes # <<>>
    /\ round < MaxRounds
    /\ LET r == rewrite_program(instructions, a.spill_nodes, FrameState)
       IN  /\ instructions' = r.instructions
           /\ pointer' = r.frame.pointer
           /\ COUNTER' = r.frame.COUNTER
           /\ initial' = (a.colored_nodes \cup r.new_temps) \cup a.coalesced_nodes
           /\ rewritten' = [instructions |-> instructions, spills |-> a.spill_nodes,
                            memory |-> r.memory]
    /\ round' = round + 1
    /\ pc' = "flow"
    /\ UNCHANGED <<body, locals, formals, flow_graph, live_in, live_out, interference, a, allocation,
                   input, last, stack_size>>

ProcEntryExit3 ==
    /\ pc = "allocated"
    /\ stack_size' = proc_entry_exit3(pointer)
    /\ pc' = "done"
    /\ UNCHANGED <<body, locals, instructions, pointer, formals, COUNTER, initial, flow_graph, live_in,
                   live_out, interference, a, allocation, round, input, rewritten, last>>

Next ==
    \/ ProcEntryExit2
    \/ Alloc
    \/ InstructionsToGraph
    \/ LivenessPass
    \/ Interference
    \/ Build
    \/ MakeWorklist
    \/ Simplify
    \/ Coalesce
    \/ Freeze
    \/ SelectSpill
    \/ AssignColors
    \/ ReplaceAllocation
    \/ RewriteProgram
    \/ ProcEntryExit3

Spec == Init /\ [][Next]_vars

\* a step of Next is possible: ENABLED <<Next>>_vars, read off the guards of the
\* actions (the loop of allocate always has a branch to take, and only the cap
\* on the rounds can stop the pipeline before pc = "done")
Running == pc # "done" /\ (pc = "colored" /\ a.spill_nodes # <<>> => round < MaxRounds)

\* the compiler is one sequential program: it always takes its next step.
\* This is weak fairness of Next, with its ENABLED written out as Running
FairSpec == Spec /\ ([]<>~Running \/ []<><<Next>>_vars)

-----------------------------------------------------------------------------
(* The frame alone: Frame::new, then any calls of alloc_local, then
   proc_entry_exit1 around the body, then proc_entry_exit3 *)

\* the `formals: Vec<bool>` handed to Frame::new
Escapes == UNION {[1..n -> BOOLEAN] : n \in 0..MaxFormals}

\* calls of alloc_local so far, those of Frame::new included
Allocs == (-pointer) \div POINTER_SIZE + (COUNTER - InitialCounter)

FrameInit ==
    /\ pc = "frame"
    /\ \E escapes \in Escapes :
         LET f == Frame_new(InitialCounter, escapes)
         IN  pointer = f.pointer /\ formals = f.formals /\ COUNTER = f.COUNTER
    /\ instructions = <<>>
    /\ initial = {}
    /\ flow_graph = NoGraph
    /\ live_in = <<>>
    /\ live_out = <<>>
    /\ interference = NoInterference
    /\ a = NoAllocator
    /\ allocation = [t \in {} |-> 0]
    /\ round = 0
    /\ input = <<>>
    /\ rewritten = NoRewrite
    /\ last = "none"
    /\ stack_size = 0
    /\ locals = <<>>
    /\ body = FunctionBody

AllocLocal ==
    /\ pc = "frame"
    /\ Allocs < MaxAllocs
    /\ \E escape \in BOOLEAN :
         LET r == alloc_local(FrameState, escape)
         IN  /\ pointer' = r.frame.pointer /\ COUNTER' = r.frame.COUNTER
             /\ locals' = Append(locals, r.access)
    /\ UNCHANGED <<body, pc, instructions, formals, initial, flow_graph, live_in, live_out,
                   interference, a, allocation, round, input, rewritten, last, stack_size>>

FrameEntryExit1 ==
    /\ pc = "frame"
    /\ LET r == proc_entry_exit1(FrameState, body)
       IN  body' = r.statement /\ COUNTER' = r.frame.COUNTER
    /\ pc' = "frame_body"
    /\ UNCHANGED <<locals, instructions, pointer, formals, initial, flow_graph, live_in,
                   live_out, interference, a, allocation, round, input, rewritten, last,
                   stack_size>>

FrameExit3 ==
    /\ pc = "frame_body"
    /\ stack_size' = proc_entry_exit3(pointer)
    /\ pc' = "frame_done"
    /\ UNCHANGED <<body, locals, instructions, pointer, formals, COUNTER, initial, flow_graph, live_in,
                   live_out, interference, a, allocation, round, input, rewritten, last>>

FrameNext ==
    \/ AllocLocal
    \/ FrameEntryExit1
    \/ FrameExit3

FrameSpec == FrameInit /\ [][FrameNext]_vars

-----------------------------------------------------------------------------
(* Properties *)

\* the Temps of a stream
TempsOf(is) ==
    UNION {Range(is[i].destination) \cup Range(is[i].source)
           : i \in {j \in 1..Len(is) : is[j].kind # "Label"}}

\* a colouring round has ended with an empty spill list
Finished == pc = "colored" /\ a.spill_nodes = <<>>

\* C1: when a colouring round ends with no spill, any two distinct Temps joined
\* by a link of the interference graph of that round's stream have a register
\* each, and the two registers differ
C1_AdjacentTempsDifferentRegisters ==
    Finished =>
        \A e \in interference.links :
            e[1] # e[2] =>
                /\ e[1] \in DOMAIN allocation
                /\ e[2] \in DOMAIN allocation
                /\ allocation[e[1]] # allocation[e[2]]

\* a final round that follows a spill, in which a move was coalesced (its two
\* ends share a register) and two Temps that are no registers interfere
C1_ColoredAfterSpillAndCoalesce ==
    /\ Finished
    /\ round >= 2
    /\ \E m \in a.coalesced_moves :
         /\ m[1] \notin precolored
         /\ m[1] \in DOMAIN allocation /\ m[2] \in DOMAIN allocation
         /\ allocation[m[1]] = allocation[m[2]]
    /\ \E e \in interference.links :
         e[1] # e[2] /\ e[1] \notin precolored /\ e[2] \notin precolored

\* C2: when the liveness loop has stopped, every node n has
\* live_in[n] >= uses[n], live_in[n] >= live_out[n] \ defines[n], and
\* live_out[n] = the union of live_in over the successors of n
C2_LivenessFixedPoint ==
    pc = "interference" =>
        \A n \in 1..Len(flow_graph.graph.nodes) :
            LET node == flow_graph.graph.nodes[n]
            IN  /\ node.uses \subseteq live_in[n]
                /\ (live_out[n] \ node.defines) \subseteq live_in[n]
                /\ live_out[n] =
                     UNION {live_in[s] : s \in Range(flow_graph.graph.successors[n])}

\* the loop has stopped on a cyclic graph: a node jumps back to an earlier one,
\* and carries a Temp that is live across the back edge
C2_StoppedOnCycle ==
    /\ pc = "interference"
    /\ \E n \in 1..Len(flow_graph.graph.nodes) :
         \E s \in Range(flow_graph.graph.successors[n]) :
            s < n /\ (live_out[n] \cap live_in[s]) \ precolored # {}

\* C3: the outer loop of allocate reaches a round with an empty spill list
\* (alloc returns), after at most as many rounds as the input stream has Temps
C3_AllocateTerminates ==
    /\ <>(pc = "done")
    /\ [](round <= Cardinality(TempsOf(input)))

\* alloc has returned after three rounds: two rewritings of the program
C3_DoneAfterRewriting == pc = "done" /\ round >= 3

\* the nodes a path from a node of S leads to, S included
RECURSIVE ReachFrom(_, _)
ReachFrom(g, S) ==
    LET more == S \cup UNION {Range(g.successors[n]) : n \in S}
    IN  IF more = S THEN S ELSE ReachFrom(g, more)

\* the nodes a path to a node of S starts from, S included
RECURSIVE ReachTo(_, _)
ReachTo(g, S) ==
    LET more == S \cup UNION {Range(g.predecessors[n]) : n \in S}
    IN  IF more = S THEN S ELSE ReachTo(g, more)

\* the interference graph of the first round is built: the stream is the one
\* proc_entry_exit2 returned
FirstGraphBuilt == pc = "build" /\ round = 1

\* the node of the sink, the last instruction of the stream
SinkNode == flow_graph.visited[Len(instructions)]

\* the nodes on a path from the first non-label instruction to the sink, the
\* sink itself (after which nothing is live) left out
OnPathToSink ==
    (ReachFrom(flow_graph.graph, {flow_graph.visited[FirstNonLabel(instructions)]})
        \cap ReachTo(flow_graph.graph, {SinkNode})) \ {SinkNode}

Joined(u, v) == <<u, v>> \in interference.links \/ <<v, u>> \in interference.links

\* C7: in the stream of proc_entry_exit2 every callee-saved register is a
\* source of the sink; rbp and rsp are live-out at every instruction on a path
\* from the first non-label instruction to the sink; and every Temp defined on
\* such a path is joined to rbp and to rsp in the interference graph
C7_FramePointersLiveToSink ==
    FirstGraphBuilt =>
        /\ Len(instructions) \in DOMAIN flow_graph.visited
        /\ Range(callee_saved_registers) \subseteq Range(instructions[Len(instructions)].source)
        /\ \A n \in OnPathToSink :
             /\ {RBP, RSP} \subseteq live_out[n]
             /\ \A d \in flow_graph.graph.nodes[n].defines :
                  \A r \in {RBP, RSP} \ {d} : Joined(d, r)

\* C10: for each node n and each d in defines[n], the graph has the link of d
\* and every t in live_out[n]; but a Move node whose sole source is t adds no
\* link of d and t
C10_MoveSourceEdgeSkipped ==
    pc = "build" =>
        \A n \in 1..Len(flow_graph.graph.nodes) :
            LET node == flow_graph.graph.nodes[n]
            IN  \A d \in node.defines : \A t \in live_out[n] :
                    IF node.is_move /\ node.uses = {t}
                    THEN <<d, t>> \notin node_links(flow_graph.graph, live_out, n)
                    ELSE <<d, t>> \in interference.links

\* the George test of the pair (u, v) on the allocator `self`
George(self, u, v) ==
    /\ u \in precolored
    /\ \A t \in adjacent(self, v) :
         \/ self.degree[t] < K
         \/ t \in precolored
         \/ <<t, u>> \in self.adjacency_set

\* the Briggs test of the pair (u, v) on the allocator `self`
Briggs(self, u, v) ==
    /\ u \notin precolored
    /\ Cardinality({t \in adjacent(self, u) \cup adjacent(self, v) : self.degree[t] >= K}) < K

\* C4: a step of the main loop that coalesces a Temp v into u (combine(u, v):
\* v enters coalesced_nodes with alias u) starts where u # v, v is not
\* precolored, (u, v) is not in adjacency_set and the George or the Briggs
\* test holds; and a move that enters coalesced_moves with two distinct aliases
\* passes one of the two tests
C4_CombineOnlyAfterTest ==
    [][pc = "loop" =>
        /\ \A v \in a'.coalesced_nodes \ a.coalesced_nodes :
             LET u == a'.alias[v]
             IN  /\ u # v
                 /\ v \notin precolored
                 /\ <<u, v>> \notin a.adjacency_set
                 /\ George(a, u, v) \/ Briggs(a, u, v)
        /\ \A m \in a'.coalesced_moves \ a.coalesced_moves :
             LET x == get_alias(a, m[1])
                 y == get_alias(a, m[2])
                 u == IF y \in precolored THEN y ELSE x
                 v == IF y \in precolored THEN x ELSE y
             IN  x # y => George(a, u, v) \/ Briggs(a, u, v)]_vars

\* a coalesce step has just combined, and by now one Temp has been coalesced
\* into a register (George) and another into a Temp that is none (Briggs)
C4_CombinedBothWays ==
    /\ pc = "loop"
    /\ last = "coalesce"
    /\ \E v \in a.coalesced_nodes : a.alias[v] \in precolored
    /\ \E v \in a.coalesced_nodes : a.alias[v] \notin precolored

\* C5: the stream alloc returns holds precolored Temps only: at the end of the
\* last round every Temp of the stream has an entry in the Allocation, a
\* precolored Temp, and replace_allocation has put it in its place
C5_OutputHoldsRegistersOnly ==
    /\ Finished =>
         \A t \in TempsOf(instructions) :
            t \in DOMAIN allocation /\ allocation[t] \in precolored
    /\ pc \in {"allocated", "done"} => TempsOf(instructions) \subseteq precolored

\* alloc has returned after a rewriting: the last round coloured a Temp
\* spilled before and coalesced a fresh Temp of the spill code
C5_AllocatedAfterRewriting ==
    /\ pc = "allocated"
    /\ round >= 2
    /\ Range(rewritten.spills) \cap a.colored_nodes # {}
    /\ \E t \in a.coalesced_nodes : t > LastBodyTemp

\* rewrite_program has just run: `rewritten` holds its input, its spills and
\* the slots, `instructions` its output
Rewritten == pc = "flow" /\ round >= 2

\* position j of the output starts a reload of s: the load of its slot into
\* some Temp, and the move of that Temp to s
Reload(j, s) ==
    /\ j + 1 <= Len(instructions)
    /\ Len(instructions[j].destination) = 1
    /\ instructions[j] = munch_load(instructions[j].destination[1], rewritten.memory[s])
    /\ instructions[j + 1] = munch_move(s, instructions[j].destination[1])

\* position q of the output is part of a reload of a spilled Temp
InReload(q) ==
    \E s \in Range(rewritten.spills) : Reload(q, s) \/ (q > 1 /\ Reload(q - 1, s))

\* position q of the output is the store of a spilled Temp to its slot
IsStore(q) ==
    \E s \in Range(rewritten.spills) : instructions[q] = munch_store(rewritten.memory[s], s)

\* C6: after rewrite_program, every instruction of the input that reads a
\* spilled Temp s stands in the output right after the reloads of its spilled
\* sources, that of s among them, and every instruction that writes s stands
\* right before the stores of its spilled destinations, that of s among them
C6_SpillCodeAroundEverySpilledTemp ==
    Rewritten =>
        \A k \in 1..Len(rewritten.instructions) :
            LET i == rewritten.instructions[k]
            IN  i.kind # "Label" =>
                    /\ \A s \in Range(i.source) \cap Range(rewritten.spills) :
                         \E p \in 1..Len(instructions) : \E j \in 1..p :
                            /\ instructions[p] = i
                            /\ j + 1 < p
                            /\ Reload(j, s)
                            /\ \A q \in (j + 2)..(p - 1) : InReload(q)
                    /\ \A s \in Range(i.destination) \cap Range(rewritten.spills) :
                         \E p \in 1..Len(instructions) : \E j \in p..Len(instructions) :
                            /\ instructions[p] = i
                            /\ p < j
                            /\ instructions[j] = munch_store(rewritten.memory[s], s)
                            /\ \A q \in (p + 1)..(j - 1) : IsStore(q)

\* C8 as stated: the N of `sub rsp, N` is a positive multiple of 16 and at
\* least -pointer
C8_StackSizePositive ==
    pc = "frame_done" =>
        /\ stack_size > 0
        /\ stack_size % 16 = 0
        /\ stack_size >= -pointer

\* C8: the N of `sub rsp, N` is -pointer rounded up to a multiple of 16: a
\* multiple of 16 with -pointer <= N < -pointer + 16, positive exactly when
\* the frame holds an escaped local (pointer < 0) and 0 otherwise
C8_StackSizeRoundedUp ==
    pc = "frame_done" =>
        /\ stack_size % 16 = 0
        /\ stack_size >= -pointer
        /\ stack_size < -pointer + 16
        /\ stack_size > 0 <=> pointer < 0

\* proc_entry_exit3 has rounded up: three escaped locals, 24 bytes, N = 32
C8_RoundedUp ==
    /\ pc = "frame_done"
    /\ pointer = -3 * POINTER_SIZE
    /\ stack_size = 32

\* what a round yields when the Move nodes contribute the pairs of `pick`
RoundWith(pick) ==
    color(interference_graph(flow_graph.graph, live_out, pick), initial)

\* C9: whatever element `.iter().next()` returns for the defines and the uses
\* of each Move node, a round spills the same Temps; a last round gives every
\* Temp the same register and returns the same stream; and a round that
\* spills hands the same Temps on to the next round
C9_PickIndependent ==
    pc = "interference" =>
        \A p1, p2 \in Picks(flow_graph.graph) :
            LET r1 == RoundWith(p1)
                r2 == RoundWith(p2)
            IN  /\ r1.spill_nodes = r2.spill_nodes
                /\ r1.spill_nodes = <<>> =>
                     /\ r1.allocation = r2.allocation
                     /\ replace_allocation(instructions, r1.allocation)
                            = replace_allocation(instructions, r2.allocation)
                /\ r1.spill_nodes # <<>> =>
                     r1.colored_nodes \cup r1.coalesced_nodes
                        = r2.colored_nodes \cup r2.coalesced_nodes

\* a round is about to choose among several picks, which give the allocator
\* different worklist_moves, and the round will spill
C9_SeveralPicks ==
    /\ pc = "interference"
    /\ \E p1, p2 \in Picks(flow_graph.graph) :
         /\ interference_graph(flow_graph.graph, live_out, p1).worklist_moves
                # interference_graph(flow_graph.graph, live_out, p2).worklist_moves
         /\ RoundWith(p1).spill_nodes # <<>>

-----------------------------------------------------------------------------
(* K and the colours of assign_colors *)

\* the colours assign_colors leaves to a Temp whose neighbours are `neighbors`,
\* all precolored: ok_colors after the removals
ColoursBeside(neighbors) ==
    remove_colors(a, [t \in precolored |-> t], Range(registers), neighbors)

\* C11: K (register_count) is the number of distinct machine registers other
\* than rsp and rbp, and it is the number of colours assign_colors can give
\* to a Temp that interferes with both rsp and rbp
C11_KCountsAllocatableRegisters ==
    /\ K = Cardinality(Range(registers) \ {RSP, RBP})
    /\ K = Cardinality(ColoursBeside({RSP, RBP}))

-----------------------------------------------------------------------------
(* simplest_reg_alloc.rs *)

is_spilled(temp) == temp \notin DOMAIN temp_map

\* the Temps of `ts` that are spilled, in the order of `ts`
RECURSIVE spilled_of(_)
spilled_of(ts) ==
    IF ts = <<>> THEN <<>>
    ELSE (IF is_spilled(Head(ts)) THEN <<Head(ts)>> ELSE <<>>) \o spilled_of(Tail(ts))

\* the first loop of simplest_allocate: per instruction, its spilled sources
\* and then its spilled destinations, every occurrence pushed
RECURSIVE simplest_spills(_)
simplest_spills(is) ==
    IF is = <<>> THEN <<>>
    ELSE (IF Head(is).kind = "Label" THEN <<>>
          ELSE spilled_of(Head(is).source) \o spilled_of(Head(is).destination))
         \o simplest_spills(Tail(is))

\* one iteration of the loop that rewrites the instructions: what it emits
simplest_one(instruction, memory, spills) ==
    LET destination == instruction.destination
        source == instruction.source
        dst == FirstSpilled(destination, spills)
        src == FirstSpilled(source, spills)
        both == Len(source) > 1 /\ is_spilled(source[1]) /\ is_spilled(source[2])
        first == Len(source) > 1 /\ is_spilled(source[1]) /\ ~is_spilled(source[2])
        second == Len(source) > 1 /\ ~is_spilled(source[1]) /\ is_spilled(source[2])
        only == Len(source) = 1 /\ is_spilled(source[1])
        store == munch_store(memory[dst], R11)
    IN  IF instruction.kind = "Label" THEN <<instruction>>
        ELSE IF dst # 0 THEN
            IF both THEN
                << munch_load(R10, memory[source[1]]),
                   munch_load(R11, memory[source[2]]),
                   [instruction EXCEPT !.source = <<R10, R11>>, !.destination = <<R11>>],
                   store >>
            ELSE IF first THEN
                << munch_load(R10, memory[source[1]]),
                   [instruction EXCEPT !.source = <<R10, source[2]>>,
                                       !.destination = <<R11>>],
                   store >>
            ELSE IF second THEN
                << munch_load(R10, memory[source[2]]),
                   [instruction EXCEPT !.source = <<source[1], R10>>,
                                       !.destination = <<R11>>],
                   store >>
            ELSE IF only THEN
                << munch_load(R10, memory[source[1]]),
                   [instruction EXCEPT !.source = <<R10>>, !.destination = <<R11>>],
                   store >>
            ELSE << [instruction EXCEPT !.destination = <<R11>>], store >>
        ELSE IF src # 0 THEN
            IF both THEN
                << munch_load(R10, memory[source[1]]),
                   munch_load(R11, memory[source[2]]),
                   [instruction EXCEPT !.source = <<R10, R11>>] >>
            ELSE IF second THEN
                << munch_load(R11, memory[source[2]]),
                   [instruction EXCEPT !.source = <<source[1], R11>>] >>
            ELSE IF first THEN
                << munch_load(R10, memory[source[1]]),
                   [instruction EXCEPT !.source = <<R10, source[2]>>] >>
            ELSE << munch_load(R10, memory[src]),
                    [instruction EXCEPT !.source = <<R10>>] >>
        ELSE <<instruction>>

RECURSIVE simplest_from(_, _, _)
simplest_from(is, memory, spills) ==
    IF is = <<>> THEN <<>>
    ELSE simplest_one(Head(is), memory, spills) \o simplest_from(Tail(is), memory, spills)

simplest_allocate(is, frame) ==
    LET spills == simplest_spills(is)
        slots == alloc_slots(frame, [x \in {} |-> 0], spills, 1)
    IN  [instructions |-> simplest_from(is, slots.memory, spills),
         frame |-> slots.frame,
         spills |-> spills,
         memory |-> slots.memory]

-----------------------------------------------------------------------------
(* The "simple" strategy of main.rs: simplest_allocate, then proc_entry_exit3 *)

\* longest source vector and longest destination vector of an input instruction
MaxSources == 3
MaxDestinations == 2

\* the operands of the input instructions: two machine registers, one of them
\* a scratch register of simplest_allocate, and two Temps
Operands == {RAX, R10, TA, TB}

VectorsUpTo(n) == UNION {[1..k -> Operands] : k \in 0..n}

NonMachine(ts) == Cardinality({i \in 1..Len(ts) : is_spilled(ts[i])})

op == <<"op", "'d0,", "'s0">>

\* at most two non-machine Temps among the sources, at most one among the
\* destinations
SimpleInstructions ==
    {Operation(op, d, s, NoJump) :
        d \in {x \in VectorsUpTo(MaxDestinations) : NonMachine(x) <= 1},
        s \in {x \in VectorsUpTo(MaxSources) : NonMachine(x) <= 2}}

SimpleTails == {<<>>, <<Move(mov, <<TB>>, <<TA>>)>>, <<Move(mov, <<TC>>, <<RAX>>)>>}

SimpleStreams ==
    {<<Label(<<"l0:">>, "l0"), i>> \o t : i \in SimpleInstructions, t \in SimpleTails}

SimplestInit ==
    /\ pc = "simple"
    /\ instructions \in SimpleStreams
    /\ LET f == Frame_new(LastBodyTemp, <<>>)
       IN  pointer = f.pointer /\ formals = f.formals /\ COUNTER = f.COUNTER
    /\ initial = {}
    /\ flow_graph = NoGraph
    /\ live_in = <<>>
    /\ live_out = <<>>
    /\ interference = NoInterference
    /\ a = NoAllocator
    /\ allocation = [t \in {} |-> 0]
    /\ round = 0
    /\ input = <<>>
    /\ rewritten = NoRewrite
    /\ last = "none"
    /\ stack_size = 0
    /\ locals = <<>>
    /\ body = FunctionBody

SimplestAllocate ==
    /\ pc = "simple"
    /\ LET r == simplest_allocate(instructions, FrameState)
       IN  /\ instructions' = r.instructions
           /\ pointer' = r.frame.pointer
           /\ COUNTER' = r.frame.COUNTER
           /\ rewritten' = [instructions |-> instructions, spills |-> r.spills,
                            memory |-> r.memory]
    /\ input' = instructions
    /\ pc' = "allocated"
    /\ UNCHANGED <<body, locals, formals, initial, flow_graph, live_in, live_out, interference, a,
                   allocation, round, last, stack_size>>

SimplestNext == SimplestAllocate \/ ProcEntryExit3

SimplestSpec == SimplestInit /\ [][SimplestNext]_vars

\* simplest_allocate has returned
SimplestDone == pc \in {"allocated", "done"} /\ input # <<>>

\* C12: the stream returned by simplest_allocate holds no non-machine Temp in
\* any source or destination vector, the input instructions having at most two
\* non-machine Temps among their sources and at most one among their
\* destinations, at any positions
C12_SimplestOutputHoldsRegistersOnly ==
    SimplestDone =>
        \A i \in 1..Len(instructions) :
            Range(instructions[i].destination) \cup Range(instructions[i].source)
                \subseteq precolored

\* what simplest_allocate emitted for the i-th instruction of its input
Emitted(i) == simplest_one(input[i], rewritten.memory, rewritten.spills)

\* every non-machine Temp of the input has a slot of its own
OwnSlots ==
    LET temps == Range(rewritten.spills)
    IN  /\ temps \subseteq DOMAIN rewritten.memory
        /\ \A t, u \in temps : t # u => rewritten.memory[t] # rewritten.memory[u]

\* g[m] reads at every source position what the instruction o read there: a
\* machine register that no load of g has overwritten, or a scratch register
\* that the last load into it filled from the slot of o's Temp
ReadsWhatItRead(o, g, m) ==
    /\ Len(g[m].source) = Len(o.source)
    /\ \A k \in 1..Len(o.source) :
         IF is_spilled(o.source[k])
         THEN /\ ~is_spilled(g[m].source[k])
              /\ \E j \in 1..(m - 1) :
                   /\ g[j] = munch_load(g[m].source[k], rewritten.memory[o.source[k]])
                   /\ \A l \in (j + 1)..(m - 1) : g[m].source[k] \notin Range(g[l].destination)
         ELSE /\ g[m].source[k] = o.source[k]
              /\ \A j \in 1..(m - 1) : o.source[k] \notin Range(g[j].destination)

\* what g[m] produces for a Temp of o is stored to that Temp's slot, and the
\* machine registers o wrote are still written
WritesWhatItWrote(o, g, m) ==
    /\ Len(g[m].destination) = Len(o.destination)
    /\ \A k \in 1..Len(o.destination) :
         IF is_spilled(o.destination[k])
         THEN /\ ~is_spilled(g[m].destination[k])
              /\ \E j \in (m + 1)..Len(g) :
                   g[j] = munch_store(rewritten.memory[o.destination[k]],
                                      g[m].destination[k])
         ELSE o.destination[k] \in Range(g[m].destination)

\* C13: simplest_allocate preserves the meaning of the stream: every
\* non-machine Temp has a slot of its own, each rewritten instruction reads at
\* every source position the value the original operand held, its result is
\* stored to the slot of the original destination Temp, and the machine
\* registers the original wrote are still written
C13_SimplestPreservesMeaning ==
    SimplestDone =>
        /\ OwnSlots
        /\ instructions = simplest_from(input, rewritten.memory, rewritten.spills)
        /\ \A i \in 1..Len(input) :
             input[i].kind # "Label" =>
                \E m \in 1..Len(Emitted(i)) :
                    /\ Emitted(i)[m].assembly = input[i].assembly
                    /\ ReadsWhatItRead(input[i], Emitted(i), m)
                    /\ WritesWhatItWrote(input[i], Emitted(i), m)

-----------------------------------------------------------------------------
(* replace_allocation *)

\* the Temp that stands for t once the allocation is substituted
Allocated(t) == IF t \in DOMAIN allocation THEN allocation[t] ELSE t

\* the i-th instruction of the stream is, after substitution, a Move with the
\* template `mov 'd0, 's0` whose first destination is its first source
IsSelfMove(i) ==
    /\ instructions[i].kind = "Move"
    /\ instructions[i].assembly = mov
    /\ Allocated(instructions[i].destination[1]) = Allocated(instructions[i].source[1])

Kept == {i \in 1..Len(instructions) : ~IsSelfMove(i)}

\* the k-th smallest member of Kept
KeptAt(k) == CHOOSE i \in Kept : Cardinality({j \in Kept : j < i}) = k - 1

\* C14: replace_allocation removes exactly the Moves with the template
\* `mov 'd0, 's0` whose first destination equals their first source after
\* substitution; every other instruction is kept, substituted, in the original
\* order
C14_OnlySelfMovesRemoved ==
    [][pc = "colored" /\ pc' = "allocated" =>
        /\ Len(instructions') = Cardinality(Kept)
        /\ \A k \in 1..Len(instructions') :
             LET o == instructions[KeptAt(k)]
                 n == instructions'[k]
             IN  /\ n.kind = o.kind /\ n.assembly = o.assembly
                 /\ n.jump = o.jump /\ n.label = o.label
                 /\ n.destination = [x \in 1..Len(o.destination) |->
                                        Allocated(o.destination[x])]
                 /\ n.source = [x \in 1..Len(o.source) |-> Allocated(o.source[x])]]_vars

\* replace_allocation has removed a self-move and kept a `mov 'd0, 's0`
\* between two different registers
C14_RemovedAndKept ==
    /\ pc = "allocated"
    /\ round = 1
    /\ Len(instructions) < Len(input)
    /\ \E i \in 1..Len(instructions) :
         /\ instructions[i].kind = "Move"
         /\ instructions[i].assembly = mov
         /\ instructions[i].destination[1] # instructions[i].source[1]

-----------------------------------------------------------------------------
(* The main loop of Allocator::allocate *)

\* C15: in the main loop a coalesce step happens only when simplify_worklist
\* is empty, a freeze step only when simplify_worklist and worklist_moves are
\* empty, a select-spill step only when simplify_worklist, worklist_moves and
\* freeze_worklist are empty, and the loop leaves to assign_colors only when
\* all four worklists are empty
C15_StepsInPriorityOrder ==
    [][pc = "loop" =>
        /\ last' = "simplify" => a.simplify_worklist # {}
        /\ last' = "coalesce" => a.simplify_worklist = {} /\ a.worklist_moves # {}
        /\ last' = "freeze" =>
             /\ a.simplify_worklist = {} /\ a.worklist_moves = {}
             /\ a.freeze_worklist # {}
        /\ last' = "select_spill" =>
             /\ a.simplify_worklist = {} /\ a.worklist_moves = {}
             /\ a.freeze_worklist = {} /\ a.spill_worklist # {}
        /\ pc' = "colored" =>
             /\ a.simplify_worklist = {} /\ a.worklist_moves = {}
             /\ a.freeze_worklist = {} /\ a.spill_worklist = {}]_vars

\* a round whose main loop has coalesced, frozen and just selected a spill
C15_AllBranchesTaken ==
    /\ pc = "loop"
    /\ last = "select_spill"
    /\ a.coalesced_nodes # {}
    /\ a.frozen_moves # {}

\* the moves of t that are still in active_moves or worklist_moves
LiveMoves(self, t) ==
    Get(self.move_list, t, {}) \cap (self.active_moves \cup self.worklist_moves)

\* C16: at the start of every main-loop step every Temp of simplify_worklist
\* is non-precolored and not move-related; a Temp of degree >= K is in
\* simplify_worklist only if select_spill put it there (the others have
\* degree < K); and simplify removes the smallest-id member
C16_SimplifyWorklistInvariant ==
    [][/\ pc' = "loop" =>
            \A t \in a'.simplify_worklist :
                /\ t \notin precolored
                /\ LiveMoves(a', t) = {}
                /\ a'.degree[t] >= K =>
                     \/ pc = "loop" /\ last' = "select_spill" /\ t \in a.spill_worklist
                     \/ pc = "loop" /\ t \in a.simplify_worklist /\ a.degree[t] >= K
       /\ pc = "loop" /\ last' = "simplify" =>
            LET temp == a'.select_stack[Len(a'.select_stack)]
            IN  /\ Len(a'.select_stack) = Len(a.select_stack) + 1
                /\ temp \in a.simplify_worklist
                /\ \A t \in a.simplify_worklist : temp <= t
                /\ temp \notin a'.simplify_worklist]_vars

\* simplify has just removed a Temp of degree >= K, which select_spill had put
\* in the worklist, and its neighbours have entered simplify_worklist
C16_SimplifiedSpillCandidate ==
    /\ pc = "loop"
    /\ last = "simplify"
    /\ a.select_stack # <<>>
    /\ a.degree[a.select_stack[Len(a.select_stack)]] >= K
    /\ a.simplify_worklist # {}

\* C17: at the start of every main-loop step every Temp of freeze_worklist is
\* move-related and of degree < K, and every Temp of spill_worklist has
\* degree >= K; a freeze step removes the smallest-id Temp u of
\* freeze_worklist, puts it in simplify_worklist and moves every move of
\* node_moves(u) into frozen_moves, after which u is not move-related
C17_FreezeAndSpillWorklists ==
    [][/\ pc' = "loop" =>
            /\ \A t \in a'.freeze_worklist :
                 LiveMoves(a', t) # {} /\ a'.degree[t] < K
            /\ \A t \in a'.spill_worklist : a'.degree[t] >= K
       /\ pc = "loop" /\ last' = "freeze" =>
            \E u \in a.freeze_worklist :
                /\ \A t \in a.freeze_worklist : u <= t
                /\ u \notin a'.freeze_worklist
                /\ u \in a'.simplify_worklist
                /\ LiveMoves(a, u) \subseteq a'.frozen_moves
                /\ LiveMoves(a, u) \cap (a'.active_moves \cup a'.worklist_moves) = {}
                /\ LiveMoves(a', u) = {}]_vars

\* a freeze step has frozen moves while other Temps wait in freeze_worklist
\* and in spill_worklist
C17_FrozeOneOfSeveral ==
    /\ pc = "loop"
    /\ last = "freeze"
    /\ a.frozen_moves # {}
    /\ a.freeze_worklist # {}
    /\ a.spill_worklist # {}

\* t is the other end of a move of temp that is still active or in the worklist
MovePartner(self, temp, t) ==
    \E m \in LiveMoves(self, temp) : t \in {get_alias(self, m[1]), get_alias(self, m[2])}

\* the worklists t is in
WorklistsOf(self, t) ==
    <<t \in self.simplify_worklist, t \in self.freeze_worklist, t \in self.spill_worklist>>

\* C18: select_spill removes from spill_worklist a Temp of maximal degree
\* among its members, the smallest-id one among ties, inserts it in
\* simplify_worklist and freezes all of its moves; no other Temp changes
\* worklist, except a move partner that becomes non-move-related with
\* degree < K
C18_SelectSpillTakesMaxDegree ==
    [][pc = "loop" /\ last' = "select_spill" =>
        \E temp \in a.spill_worklist :
            /\ \A t \in a.spill_worklist :
                 \/ a.degree[t] < a.degree[temp]
                 \/ a.degree[t] = a.degree[temp] /\ temp <= t
            /\ a'.spill_worklist = a.spill_worklist \ {temp}
            /\ temp \in a'.simplify_worklist
            /\ LiveMoves(a, temp) \subseteq a'.frozen_moves
            /\ LiveMoves(a', temp) = {}
            /\ \A t \in (DOMAIN a.degree) \ {temp} :
                 WorklistsOf(a', t) # WorklistsOf(a, t) =>
                    /\ MovePartner(a, temp, t)
                    /\ t \in a'.simplify_worklist
                    /\ LiveMoves(a', t) = {}
                    /\ a'.degree[t] < K]_vars

\* select_spill has just taken a Temp whose moves are frozen, while a Temp of
\* the same degree and larger id and a Temp of smaller degree and smaller id
\* stay in spill_worklist
C18_TookMaxAmongTies ==
    /\ pc = "loop"
    /\ last = "select_spill"
    /\ \E v \in a.simplify_worklist :
         /\ \E t \in a.spill_worklist : a.degree[t] = a.degree[v] /\ t > v
         /\ \E t \in a.spill_worklist : a.degree[t] < a.degree[v] /\ t < v
         /\ moves_of(a, v) \cap a.frozen_moves # {}

-----------------------------------------------------------------------------
(* assign_colors and the coalesced nodes *)

\* C19: after assign_colors in a round with an empty spill list every Temp v
\* of coalesced_nodes has the colour of get_alias(v), which is a precolored
\* or coloured Temp; so the two ends of every move of coalesced_moves have
\* the same colour
C19_CoalescedTakeAliasColour ==
    Finished =>
        /\ \A v \in a.coalesced_nodes :
             /\ get_alias(a, v) \in precolored \cup a.colored_nodes
             /\ get_alias(a, v) \in DOMAIN allocation
             /\ v \in DOMAIN allocation
             /\ allocation[v] = allocation[get_alias(a, v)]
        /\ \A m \in a.coalesced_moves :
             /\ {m[1], m[2]} \subseteq DOMAIN allocation
             /\ allocation[m[1]] = allocation[m[2]]

\* a last round in which a Temp was coalesced into a Temp that was coalesced
\* in its turn, and another into a coloured Temp
C19_ChainOfAliases ==
    /\ Finished
    /\ \E v \in a.coalesced_nodes : a.alias[v] \in a.coalesced_nodes
    /\ \E v \in a.coalesced_nodes : a.alias[v] \in a.colored_nodes

-----------------------------------------------------------------------------
(* The flow graph *)

\* the index of the Label instruction that carries the label l
LabelIndex(l) ==
    CHOOSE i \in 1..Len(instructions) :
        instructions[i].kind = "Label" /\ instructions[i].label = l

\* instruction i is an Operation whose assembly starts with `jmp `
IsJmp(i) ==
    /\ instructions[i].kind = "Operation"
    /\ Len(instructions[i].assembly) >= 2
    /\ instructions[i].assembly[1] = "jmp"

\* the instructions control can reach next from instruction i
Targets(i) ==
    {LabelIndex(l) : l \in Range(instructions[i].jump.labels)}
        \cup (IF i + 1 <= Len(instructions) /\ ~IsJmp(i) THEN {i + 1} ELSE {})

\* C20: for every instruction that has a node in the flow graph, the
\* successors of the node are exactly the nodes of the instructions at the
\* label index of each label of its jump list, plus the node of the next
\* instruction when there is one and the instruction is not an Operation
\* starting with `jmp `
C20_SuccessorsAreTargets ==
    pc = "liveness" =>
        \A i \in DOMAIN flow_graph.visited :
            /\ Targets(i) \subseteq DOMAIN flow_graph.visited
            /\ Range(flow_graph.graph.successors[flow_graph.visited[i]])
                 = {flow_graph.visited[j] : j \in Targets(i)}

\* a flow graph with a conditional jump back to a label, a `jmp` over an
\* instruction, and so an instruction without a node
C20_BranchAndJmp ==
    /\ pc = "liveness"
    /\ \E i \in DOMAIN flow_graph.visited : IsJmp(i) /\ Targets(i) # {}
    /\ \E i \in DOMAIN flow_graph.visited : ~IsJmp(i) /\ Cardinality(Targets(i)) >= 2
    /\ \E i \in 1..Len(instructions) : i \notin DOMAIN flow_graph.visited

\* the instructions control can reach from the instructions of S, S included
RECURSIVE ReachableFrom(_)
ReachableFrom(S) ==
    LET more == S \cup UNION {Targets(i) : i \in S}
    IN  IF more = S THEN S ELSE ReachableFrom(more)

\* the node of instruction i holds the instruction's operands
NodeHoldsOperands(i) ==
    LET node == flow_graph.graph.nodes[flow_graph.visited[i]]
        instruction == instructions[i]
    IN  /\ node.is_move = (instruction.kind = "Move")
        /\ node.defines = {instruction.destination[k] : k \in 1..Len(instruction.destination)}
        /\ node.uses = {instruction.source[k] : k \in 1..Len(instruction.source)}

\* instructions_to_graph has just returned: the liveness loop has not run yet
GraphJustBuilt ==
    /\ pc = "liveness"
    /\ \A n \in 1..Len(live_in) : live_in[n] = {} /\ live_out[n] = {}

\* C21 as stated: every instruction of the stream has exactly one node,
\* whatever the control flow, and the node holds the instruction's operands
C21_OneNodePerInstruction ==
    GraphJustBuilt =>
        /\ DOMAIN flow_graph.visited = 1..Len(instructions)
        /\ Len(flow_graph.graph.nodes) = Len(instructions)
        /\ \A i, j \in DOMAIN flow_graph.visited :
             i # j => flow_graph.visited[i] # flow_graph.visited[j]
        /\ \A i \in DOMAIN flow_graph.visited : NodeHoldsOperands(i)

\* C21, amended: the instructions that control can reach from the first
\* instruction have exactly one node each, the others have none, and a node
\* holds its instruction's operands: is_move for a Move, the destination and
\* source vectors as the sets defines and uses
C21_OneNodePerReachableInstruction ==
    GraphJustBuilt =>
        /\ DOMAIN flow_graph.visited = ReachableFrom({1})
        /\ Len(flow_graph.graph.nodes) = Cardinality(ReachableFrom({1}))
        /\ \A i \in DOMAIN flow_graph.visited :
             flow_graph.visited[i] \in 1..Len(flow_graph.graph.nodes)
        /\ \A i, j \in DOMAIN flow_graph.visited :
             i # j => flow_graph.visited[i] # flow_graph.visited[j]
        /\ \A i \in DOMAIN flow_graph.visited : NodeHoldsOperands(i)

\* a flow graph built from a stream with a loop and with a Move that no path
\* from the first instruction reaches
C21_LoopAndUnreachableMove ==
    /\ GraphJustBuilt
    /\ \E i \in 1..Len(instructions) :
         i \notin ReachableFrom({1}) /\ instructions[i].kind = "Move"
    /\ \E i \in ReachableFrom({1}) : \E j \in Targets(i) : j < i

-----------------------------------------------------------------------------
(* The frame: alloc_local *)

\* the Accesses one frame has handed out: those of Frame::new, then the locals
HandedOut == formals \o locals

\* the positions of HandedOut that hold an InFrame
InFrames == {k \in 1..Len(HandedOut) : HandedOut[k].kind = "InFrame"}

\* the InFrame offsets of one frame are pairwise distinct negative multiples
\* of 8, and pointer is -8 times the number of escaped allocations
OffsetsDistinct ==
    /\ \A k \in InFrames :
         HandedOut[k].offset < 0 /\ HandedOut[k].offset % 8 = 0
    /\ \A k, l \in InFrames : k # l => HandedOut[k].offset # HandedOut[l].offset
    /\ pointer = -8 * Cardinality(InFrames)

\* a call of alloc_local: with escape, pointer drops by 8 and the Access is
\* InFrame(new pointer); without, pointer stays and the Access is InReg of a
\* Temp that is no machine register and was never handed out before
AllocLocalStep ==
    Len(locals') = Len(locals) + 1 =>
        LET access == locals'[Len(locals')]
        IN  IF access.kind = "InFrame"
            THEN pointer' = pointer - 8 /\ access.offset = pointer'
            ELSE /\ access.kind = "InReg"
                 /\ pointer' = pointer
                 /\ access.temp \notin precolored
                 /\ \A k \in 1..Len(HandedOut) :
                      HandedOut[k].kind = "InReg" => HandedOut[k].temp # access.temp

\* C22: alloc_local(true) decreases pointer by exactly 8 and returns
\* InFrame(new pointer), alloc_local(false) leaves pointer unchanged and
\* returns InReg of a Temp never returned before; after Frame::new and any
\* calls of alloc_local the InFrame offsets of the frame are pairwise distinct
\* negative multiples of 8 and pointer is -8 times the number of escaped
\* allocations, escaped formals included
C22_AllocLocalOffsets == []OffsetsDistinct /\ [][AllocLocalStep]_vars

\* a frame with an escaped and a non-escaped formal that has handed out two
\* InFrame locals and two InReg locals
C22_FormalsAndLocals ==
    /\ pc = "frame"
    /\ \E k, l \in 1..Len(formals) : formals[k].kind = "InFrame" /\ formals[l].kind = "InReg"
    /\ Cardinality({k \in 1..Len(locals) : locals[k].kind = "InFrame"}) >= 2
    /\ Cardinality({k \in 1..Len(locals) : locals[k].kind = "InReg"}) >= 2

-----------------------------------------------------------------------------
(* proc_entry_exit1: saves, formal moves, body, restores *)

\* the statements of a Statement tree in the order they execute
RECURSIVE Flatten(_)
Flatten(s) ==
    IF s.kind = "Sequence" THEN Flatten(s.left) \o Flatten(s.right) ELSE <<s>>

EntryExit1Done == pc \in {"frame_body", "frame_done"}

BodyAt(L) == {k \in 1..Len(L) : L[k] = FunctionBody}

IsTempMove(s) == s.kind = "Move" /\ s.dst.kind = "Temp" /\ s.src.kind = "Temp"

\* where register r is copied into a Temp, and where a Temp is copied into r
SavesOf(L, r) == {k \in 1..Len(L) : IsTempMove(L[k]) /\ L[k].src.temp = r}

RestoresOf(L, r) == {k \in 1..Len(L) : IsTempMove(L[k]) /\ L[k].dst.temp = r}

\* the moves that fill the formals: their source is an argument register or a
\* word of the caller's frame
FormalMoves(L) ==
    {k \in 1..Len(L) :
        /\ L[k].kind = "Move"
        /\ \/ L[k].src.kind = "Temp" /\ L[k].src.temp \in {RDI, RSI, RDX, RCX, R8, R9}
           \/ L[k].src.kind = "Mem"}

CalleeSaved == {RBX, RBP, R12, R13, R14, R15}

SavedIn(L, r) == L[CHOOSE k \in SavesOf(L, r) : TRUE].dst.temp

HandedOutTemps == {HandedOut[k].temp : k \in {j \in 1..Len(HandedOut) : HandedOut[j].kind = "InReg"}}

\* C23: the statement proc_entry_exit1 returns holds the body once; for each
\* callee-saved register r exactly one Move(Temp(t_r), Temp(r)) ahead of the
\* body and exactly one Move(Temp(r), Temp(t_r)) behind it; the t_r are fresh
\* (no register, no Temp handed out earlier) and differ from register to
\* register; saves come before formal moves, formal moves before the body,
\* the body before the restores
C23_SavesFormalsBodyRestores ==
    EntryExit1Done =>
        LET L == Flatten(body)
            b == CHOOSE k \in BodyAt(L) : TRUE
        IN  /\ Cardinality(BodyAt(L)) = 1
            /\ \A r \in CalleeSaved :
                 /\ Cardinality(SavesOf(L, r)) = 1
                 /\ Cardinality(RestoresOf(L, r)) = 1
                 /\ \A k \in RestoresOf(L, r) : L[k].src.temp = SavedIn(L, r) /\ b < k
                 /\ SavedIn(L, r) \notin precolored \cup HandedOutTemps
                 /\ \A q \in CalleeSaved \ {r} : SavedIn(L, q) # SavedIn(L, r)
                 /\ \A s \in SavesOf(L, r) : s < b /\ \A m \in FormalMoves(L) : s < m
            /\ \A m \in FormalMoves(L) : m < b

\* proc_entry_exit1 has run on a frame with formals in registers, formals in
\* the frame and formals the caller passed on the stack
C23_SavedAroundSevenFormals ==
    /\ EntryExit1Done
    /\ Len(formals) = 7
    /\ formals[1].kind = "InFrame" /\ formals[2].kind = "InReg"
    /\ formals[7].kind = "InReg"
    /\ Cardinality(FormalMoves(Flatten(body))) = 7
    /\ \A r \in CalleeSaved :
         SavesOf(Flatten(body), r) # {} /\ RestoresOf(Flatten(body), r) # {}

\* the Access of a formal read against rbp
AgainstRbp(access) ==
    IF access.kind = "InFrame"
    THEN Exp_Mem(Exp_Plus(Exp_Temp(RBP), Exp_Const(access.offset)))
    ELSE Exp_Temp(access.temp)

\* where the System V convention leaves the argument at 0-based position j
IncomingArgument(j) ==
    IF j < 6
    THEN Exp_Temp(<<RDI, RSI, RDX, RCX, R8, R9>>[j + 1])
    ELSE Exp_Mem(Exp_Plus(Exp_Temp(RBP), Exp_Const(8 * ((j - 6) + 2))))

\* C24: in the statement proc_entry_exit1 returns, the formal at 0-based
\* position j is filled by exactly one move; its source is the j-th of rdi,
\* rsi, rdx, rcx, r8, r9 when j < 6 and the word at rbp + 8*(j - 6 + 2)
\* otherwise, its destination the formal's Access read against rbp; there is
\* no other formal move
C24_FormalsFilledFromArguments ==
    EntryExit1Done =>
        LET L == Flatten(body)
        IN  /\ Cardinality(FormalMoves(L)) = Len(formals)
            /\ \A j \in 0..(Len(formals) - 1) :
                 /\ Cardinality({k \in FormalMoves(L) :
                                    L[k].dst = AgainstRbp(formals[j + 1])}) = 1
                 /\ \A k \in FormalMoves(L) :
                      L[k].dst = AgainstRbp(formals[j + 1])
                          => L[k].src = IncomingArgument(j)

\* proc_entry_exit1 has run on a frame whose seventh formal, passed on the
\* stack, escapes, with formals of both kinds among the first six
C24_StackPassedFormal ==
    /\ EntryExit1Done
    /\ Len(formals) = 7
    /\ formals[7].kind = "InFrame"
    /\ formals[6].kind = "InReg"
    /\ formals[3].kind = "InFrame"
    /\ \E k \in FormalMoves(Flatten(body)) :
         /\ Flatten(body)[k].src.kind = "Mem"
         /\ Flatten(body)[k].dst.kind = "Mem"

-----------------------------------------------------------------------------
(* The main loop of allocate: termination and what it leaves *)

LoopExited ==
    /\ pc = "loop"
    /\ a.simplify_worklist = {} /\ a.worklist_moves = {}
    /\ a.freeze_worklist = {} /\ a.spill_worklist = {}

\* the Allocator after the iteration the loop takes next
OneIteration(self) ==
    IF self.simplify_worklist # {} THEN simplify(self)
    ELSE IF self.worklist_moves # {} THEN coalesce(self)
    ELSE IF self.freeze_worklist # {} THEN freeze(self)
    ELSE select_spill(self)

\* C25: the main loop of allocate ends: every iteration changes the Allocator,
\* and from every state inside the loop assign_colors is reached; when the
\* loop exits every Temp of initial is on select_stack or in coalesced_nodes
C25_MainLoopTerminates ==
    /\ [](pc = "loop" /\ ~LoopExited => OneIteration(a) # a)
    /\ ((pc = "loop") ~> (pc = "colored"))
    /\ [](LoopExited =>
            \A t \in initial : t \in Range(a.select_stack) \/ t \in a.coalesced_nodes)

\* the loop has exited after coalescing, constraining and freezing moves, with
\* Temps both on select_stack and in coalesced_nodes
C25_ExitedAfterAllBranches ==
    /\ LoopExited
    /\ a.coalesced_nodes # {} /\ a.select_stack # <<>>
    /\ a.frozen_moves # {} /\ a.constrained_moves # {}
    /\ last = "simplify"

-----------------------------------------------------------------------------
(* The worklists of the main loop *)

\* how many of the five places hold t
PlacesOf(self, t) ==
    Cardinality({w \in {"simplify", "freeze", "spill", "stack", "coalesced"} :
        \/ w = "simplify" /\ t \in self.simplify_worklist
        \/ w = "freeze" /\ t \in self.freeze_worklist
        \/ w = "spill" /\ t \in self.spill_worklist
        \/ w = "stack" /\ t \in Range(self.select_stack)
        \/ w = "coalesced" /\ t \in self.coalesced_nodes})

\* C26: after make_worklist and after every step of the main loop, every
\* non-precolored Temp of initial is in exactly one of simplify_worklist,
\* freeze_worklist, spill_worklist, select_stack, coalesced_nodes; no
\* precolored Temp is in any of them; select_stack holds no Temp twice
C26_WorklistsPartitionInitial ==
    pc = "loop" =>
        /\ \A t \in initial \ precolored : PlacesOf(a, t) = 1
        /\ \A t \in precolored : PlacesOf(a, t) = 0
        /\ Cardinality(Range(a.select_stack)) = Len(a.select_stack)

\* inside the loop, with a Temp in each of the five places
C26_AllFivePlaces ==
    /\ pc = "loop"
    /\ a.simplify_worklist # {} /\ a.freeze_worklist # {} /\ a.spill_worklist # {}
    /\ a.select_stack # <<>> /\ a.coalesced_nodes # {}

-----------------------------------------------------------------------------
(* Degrees *)

InWorklists(self) ==
    self.simplify_worklist \cup self.freeze_worklist \cup self.spill_worklist

\* the neighbours of t that are neither on select_stack nor coalesced
LiveNeighbours(self, t) ==
    {n \in Get(self.adjacency_list, t, {}) :
        n \notin Range(self.select_stack) /\ n \notin self.coalesced_nodes}

\* C27: after build and after every step of the main loop, the degree of every
\* Temp in a worklist (after build: of every Temp of initial that has one) is
\* the number of its neighbours that are neither on select_stack nor in
\* coalesced_nodes; no degree is ever below 0 (decrement_degree never meets a
\* degree of 0) and the degree of a precolored Temp is never below K
C27_DegreeCountsLiveNeighbours ==
    /\ pc = "loop" =>
         \A t \in InWorklists(a) : a.degree[t] = Cardinality(LiveNeighbours(a, t))
    /\ pc = "make_worklist" =>
         \A t \in (initial \cap DOMAIN a.degree) \ precolored :
            a.degree[t] = Cardinality(LiveNeighbours(a, t))
    /\ pc \in {"make_worklist", "loop", "colored"} =>
         /\ \A t \in DOMAIN a.degree : a.degree[t] >= 0
         /\ \A t \in precolored : a.degree[t] >= K

\* a Temp with neighbours on select_stack and coalesced neighbours is still in
\* a worklist, and a precolored degree has been decremented
C27_NeighboursGone ==
    /\ pc = "loop"
    /\ \E t \in InWorklists(a) :
         /\ Get(a.adjacency_list, t, {}) \cap Range(a.select_stack) # {}
         /\ Get(a.adjacency_list, t, {}) \cap a.coalesced_nodes # {}
         /\ LiveNeighbours(a, t) # {}
    /\ \E p \in precolored : a.degree[p] < usize_MAX

-----------------------------------------------------------------------------
(* The move sets *)

\* how many of the five move sets hold pair
MoveSetsOf(self, pair) ==
    Cardinality({w \in {"worklist", "active", "coalesced", "constrained", "frozen"} :
        \/ w = "worklist" /\ pair \in self.worklist_moves
        \/ w = "active" /\ pair \in self.active_moves
        \/ w = "coalesced" /\ pair \in self.coalesced_moves
        \/ w = "constrained" /\ pair \in self.constrained_moves
        \/ w = "frozen" /\ pair \in self.frozen_moves})

Settled(self) == self.coalesced_moves \cup self.constrained_moves \cup self.frozen_moves

Pending(self) == self.worklist_moves \cup self.active_moves

MovesPartitioned ==
    pc = "loop" =>
        /\ \A pair \in interference.worklist_moves : MoveSetsOf(a, pair) = 1
        /\ Settled(a) \cup Pending(a) = interference.worklist_moves

SettledStaySettled ==
    pc = "loop" /\ pc' = "loop" =>
        /\ a.coalesced_moves \subseteq a'.coalesced_moves
        /\ a.constrained_moves \subseteq a'.constrained_moves
        /\ a.frozen_moves \subseteq a'.frozen_moves
        /\ Settled(a) \cap Pending(a') = {}

\* C28: after every step of the main loop, every move pair the interference
\* graph seeded in worklist_moves is in exactly one of worklist_moves,
\* active_moves, coalesced_moves, constrained_moves, frozen_moves; and a loop
\* step never takes a move out of coalesced_moves, constrained_moves or
\* frozen_moves, nor puts such a move in worklist_moves or active_moves
C28_MoveSetsPartition == []MovesPartitioned /\ [][SettledStaySettled]_vars

\* inside the loop, with moves in four of the five sets at once
C28_MovesEverywhere ==
    /\ pc = "loop"
    /\ a.coalesced_moves # {} /\ a.constrained_moves # {}
    /\ a.active_moves # {} /\ a.worklist_moves # {}

-----------------------------------------------------------------------------
(* The colours of rbp and rsp *)

\* C29: no non-precolored Temp is given the colour rbp or rsp by assign_colors.
\* The Temps coalesced with rbp or rsp (the Temp rbp is saved in) take the
\* colour of their alias and are left aside here: the statement is about the
\* colours assign_colors picks from ok_colors
C29_FramePointersNeverAssigned ==
    pc \in {"colored", "allocated", "done"} =>
        \A t \in DOMAIN allocation \ precolored :
            get_alias(a, t) \notin {RBP, RSP} => allocation[t] \notin {RBP, RSP}

-----------------------------------------------------------------------------
(* The liveness loop: termination and the least solution *)

\* the nodes from which a path reaches a use of t with no define of t before
\* it (the node's own use counts, its own define does not stop it), found by
\* walking the graph backwards from the uses
RECURSIVE UseAhead(_, _, _)
UseAhead(g, t, S) ==
    LET more == S \cup {n \in 1..Len(g.nodes) :
                    \/ t \in g.nodes[n].uses
                    \/ t \notin g.nodes[n].defines /\ Range(g.successors[n]) \cap S # {}}
    IN  IF more = S THEN S ELSE UseAhead(g, t, more)

LivenessStopped == pc = "interference"

\* C30: the liveness loop stops, and what it leaves is the least solution: a
\* Temp t is in live_out[n] only if a path from a successor of n reaches a use
\* of t before any define of t (and then it is: the sets are exactly these)
C30_LivenessLeastSolution ==
    /\ ((pc = "liveness") ~> LivenessStopped)
    /\ [](LivenessStopped =>
            \A t \in UNION {live_out[n] \cup live_in[n] \cup flow_graph.graph.nodes[n].uses
                            : n \in 1..Len(flow_graph.graph.nodes)} :
                LET ahead == UseAhead(flow_graph.graph, t, {})
                IN  \A n \in 1..Len(flow_graph.graph.nodes) :
                        /\ t \in live_in[n] <=> n \in ahead
                        /\ t \in live_out[n] <=>
                             Range(flow_graph.graph.successors[n]) \cap ahead # {})

\* the loop has stopped on a graph with a back edge, where a Temp is live out
\* of the node that defines it and not live into it, and a Temp is live around
\* the cycle
C30_StoppedWithKilledTemp ==
    /\ LivenessStopped
    /\ \E n \in 1..Len(flow_graph.graph.nodes) :
         /\ \E s \in Range(flow_graph.graph.successors[n]) :
              s < n /\ (live_out[n] \cap live_in[s]) \ precolored # {}
    /\ \E n \in 1..Len(flow_graph.graph.nodes) :
         \E t \in flow_graph.graph.nodes[n].defines \ precolored :
            t \in live_out[n] /\ t \notin live_in[n]

====
